---- MODULE Spec2Model ----
(***************************************************************************)
(* Transactional storage kernel of simpledb-rs: file manager, log manager, *)
(* buffer pool, lock table / concurrency manager, recovery and the         *)
(* Transaction surface (pin, unpin, get_int, set_int, commit, rollback,    *)
(* recover).                                                               *)
(*                                                                         *)
(* Data pages are kept as arrays of 4-byte integer cells (cell o stands    *)
(* for byte offset 4*o); the log is kept block by block, each block the    *)
(* list of the records packed into it, with the byte sizes of the source.  *)
(* Every Transaction method is one step: it runs on the thread owning the  *)
(* transaction and every shared structure it touches is behind a mutex.    *)
(*                                                                         *)
(* The log manager and its iterator are modelled a second time byte by     *)
(* byte (pages are sequences of bytes) for the properties that depend on   *)
(* the layout of a log page; that part runs under its own specification    *)
(* SpecLog.                                                                *)
(***************************************************************************)
EXTENDS Integers, Sequences, FiniteSets, TLC

\* ---------------------------------------------------------------------
\* Bounds of the model
\* ---------------------------------------------------------------------
MaxTx == 2
NBufs == 1
NBlocks == 2
NCells == 1
MaxVal == 1
MaxPins == 1
MaxPoolPins == 2
MaxWrites == 2
MaxCrash == 1
MaxTxRestart == 1
BlockSize == 64
MaxRecs == 4
LogBlockSize == 272
SmallLen == 8
MidLen == 24
BigLen == 260

\* ---------------------------------------------------------------------
\* Program constants
\* ---------------------------------------------------------------------
FileNameLen == 8
OpCheckpoint == 0
OpStart == 1
OpCommit == 2
OpRollback == 3
OpSetInt == 4

U8 == 256

NoBlock == -1
END_OF_FILE == -1
NoIdx == -1
NoVal == -1
NoTx == 0
NoLsn == -1

\* Option<i32> of Buffer::txnum: None and Some(v)
None == << >>
Some(v) == << v >>

TxNums == 1..MaxTx
Blocks == 0..(NBlocks - 1)
Cells == 0..(NCells - 1)
Values == 0..MaxVal
BufIdx == 0..(NBufs - 1)

\* The blocks a lock can be held on: the blocks of the file and the
\* sentinel block of Transaction::size and Transaction::append.
LockKeys == Blocks \cup {END_OF_FILE}

Max(a, b) == IF a >= b THEN a ELSE b

ZeroPage == [o \in Cells |-> 0]

VARIABLES
    NEXT_TXNUM,      \* transaction.rs: static NEXT_TXNUM
    txs,             \* per txnum: status, BufferList (buffers, pins), ConcurrencyMgr.locks
    locks,           \* LockTable.locks (LOCK_TABLE), a map whose domain is the keys
    lt_stuck,        \* a thread spins for ever inside LockTable::slock/xlock
    pool,            \* BufferMgr.pool
    available,       \* BufferMgr.available
    disk,            \* blocks of the data file
    fileLen,         \* length of the data file in blocks
    logdisk,         \* blocks of the log file, each the records packed into it
    logpage,         \* LogMgr.page
    current_block,   \* LogMgr.current_block (number)
    latest_lsn,      \* LogMgr.latest_lsn
    last_saved_lsn,  \* LogMgr.last_saved_lsn
    needRecover,     \* the process was restarted and recover() has not run yet
    crashes,         \* number of restarts so far
    diskLsn,         \* history: per data block, highest LSN of a logged change in the disk page
    hist,            \* history: what each transaction wrote, the number of writes of
                     \* the process, and the committed values
    blog,            \* byte level: LogMgr (page, current_block, lsns) and the log file
    iter,            \* byte level: the LogIterator in use
    appended,        \* history: <<length, fill byte>> of the records appended, oldest first
    yielded,         \* history: the records the iterator returned, in order
    thr,             \* threads: per thread, where it is inside a call and the call's locals
    now,             \* threads: the clock, in ticks
    mutex            \* threads: the thread holding the mutex of the shared manager
                     \* (Mutex<BufferMgr>, Mutex<LockTable>), NoThread when free

vars == << NEXT_TXNUM, txs, locks, lt_stuck, pool, available, disk, fileLen,
           logdisk, logpage, current_block, latest_lsn, last_saved_lsn,
           needRecover, crashes, diskLsn, hist, blog, iter, appended, yielded,
           thr, now, mutex >>

thrvars == << thr, now, mutex >>

logvars == << blog, iter, appended, yielded >>
mainvars == << NEXT_TXNUM, txs, locks, lt_stuck, pool, available, disk, fileLen,
               logdisk, logpage, current_block, latest_lsn, last_saved_lsn,
               needRecover, crashes, diskLsn, hist >>

\* The whole state as one record, so that the methods compose as functions.
Cur == [ NEXT_TXNUM |-> NEXT_TXNUM, txs |-> txs, locks |-> locks, lt_stuck |-> lt_stuck,
         pool |-> pool, available |-> available, disk |-> disk, fileLen |-> fileLen,
         logdisk |-> logdisk, logpage |-> logpage, current_block |-> current_block,
         latest_lsn |-> latest_lsn, last_saved_lsn |-> last_saved_lsn,
         diskLsn |-> diskLsn, panicked |-> FALSE ]

Install(s) ==
    /\ NEXT_TXNUM' = s.NEXT_TXNUM
    /\ txs' = s.txs
    /\ locks' = s.locks
    /\ lt_stuck' = s.lt_stuck
    /\ pool' = s.pool
    /\ available' = s.available
    /\ disk' = s.disk
    /\ fileLen' = s.fileLen
    /\ logdisk' = s.logdisk
    /\ logpage' = s.logpage
    /\ current_block' = s.current_block
    /\ latest_lsn' = s.latest_lsn
    /\ last_saved_lsn' = s.last_saved_lsn
    /\ diskLsn' = s.diskLsn
    /\ UNCHANGED logvars

\* ---------------------------------------------------------------------
\* File manager (data file)
\* ---------------------------------------------------------------------
\* FileMgr::write: a write past the end of the file extends it, the hole reads as zeros.
FileMgr_write(s, blk, page) ==
    [s EXCEPT !.disk[blk] = page, !.fileLen = Max(@, blk + 1)]

\* FileMgr::read: a read at or past the end of the file reads no byte and
\* leaves the page as it was.
FileMgr_read(s, blk, page) ==
    IF blk < s.fileLen THEN s.disk[blk] ELSE page

\* ---------------------------------------------------------------------
\* Log records
\* ---------------------------------------------------------------------
LogRec(op, txnum, blk, offset, val) ==
    [op |-> op, txnum |-> txnum, blk |-> blk, offset |-> offset, val |-> val]

CheckpointRecord == LogRec(OpCheckpoint, NoTx, NoBlock, NoVal, NoVal)
StartRecord(t) == LogRec(OpStart, t, NoBlock, NoVal, NoVal)
CommitRecord(t) == LogRec(OpCommit, t, NoBlock, NoVal, NoVal)
RollbackRecord(t) == LogRec(OpRollback, t, NoBlock, NoVal, NoVal)
SetIntRecord(t, blk, offset, val) == LogRec(OpSetInt, t, blk, offset, val)

\* Page::max_length
max_length(strlen) == 4 + strlen

\* Length in bytes of the record built by each write_to_log.
RecLen(r) ==
    IF r.op = OpCheckpoint THEN 4
    ELSE IF r.op = OpSetInt THEN 4 + 4 + max_length(FileNameLen) + 4 + 4 + 4
    ELSE 8

\* ---------------------------------------------------------------------
\* Log manager
\* ---------------------------------------------------------------------
RECURSIVE UsedBytes(_)
UsedBytes(recs) ==
    IF recs = << >> THEN 0 ELSE RecLen(Head(recs)) + 4 + UsedBytes(Tail(recs))

\* page.get_int(0) of a log page: records are packed right to left from block_size.
Boundary(recs) == BlockSize - UsedBytes(recs)

\* LogMgr::flush
LogMgr_flush(s) ==
    [s EXCEPT !.logdisk[s.current_block + 1] = s.logpage,
              !.last_saved_lsn = s.latest_lsn]

\* LogMgr::flush_record that never writes (not what the code does)
LogMgr_flush_record_never(s, lsn) == s

\* LogMgr::flush_record
LogMgr_flush_record(s, lsn) ==
    IF lsn >= s.last_saved_lsn THEN LogMgr_flush(s) ELSE s

\* LogMgr::append_new_block
LogMgr_append_new_block(s) ==
    [s EXCEPT !.logdisk = Append(@, << >>),
              !.logpage = << >>,
              !.current_block = Len(s.logdisk)]

\* LogMgr::append; the LSN of the record is latest_lsn of the result.
LogMgr_append(s, rec) ==
    LET bytes_needed == RecLen(rec) + 4
        s1 == IF Boundary(s.logpage) - bytes_needed < 4
              THEN LogMgr_append_new_block(LogMgr_flush(s))
              ELSE s
    IN [s1 EXCEPT !.logpage = Append(@, rec), !.latest_lsn = @ + 1]

RECURSIVE Reverse(_)
Reverse(q) == IF q = << >> THEN << >> ELSE Append(Reverse(Tail(q)), Head(q))

\* The records a LogIterator yields: each block from its boundary to its
\* end (newest first), from block number n down to block 0.
RECURSIVE IterRecords(_, _)
IterRecords(ld, n) ==
    IF n < 0 THEN << >> ELSE Reverse(ld[n + 1]) \o IterRecords(ld, n - 1)

\* LogMgr::iterator + LogIterator: flushes, then reads the blocks from disk.
LogMgr_iterator(s) == IterRecords(LogMgr_flush(s).logdisk, s.current_block)

\* Number of the records of the tail page that are not on disk.
Unflushed(ld, lp, cb) == Len(lp) - Len(ld[cb + 1])

\* ---------------------------------------------------------------------
\* Buffer
\* ---------------------------------------------------------------------
\* Buffer::new; mlsn is history: the highest LSN of a logged change held in the page.
NewBuffer == [contents |-> ZeroPage, block |-> NoBlock, pins |-> 0,
              txnum |-> None, lsn |-> NoLsn, mlsn |-> 0]

\* Buffer::is_pinned
is_pinned(b) == b.pins > 0

\* Buffer::set_modified
Buffer_set_modified(b, txnum, lsn) ==
    [b EXCEPT !.txnum = Some(txnum), !.lsn = IF lsn >= 0 THEN lsn ELSE @]

\* A flush that writes the page without flushing the log first.
Buffer_flush_nolog(s, i) ==
    LET b == s.pool[i] IN
    IF b.txnum # None
    THEN LET s2 == IF b.block # NoBlock
                   THEN [FileMgr_write(s, b.block, b.contents)
                            EXCEPT !.diskLsn[b.block] = b.mlsn]
                   ELSE s
         IN [s2 EXCEPT !.pool[i].txnum = None]
    ELSE s

\* Buffer::flush
Buffer_flush(s, i) ==
    LET b == s.pool[i] IN
    IF b.txnum # None
    THEN LET s1 == IF b.lsn # NoLsn THEN LogMgr_flush_record(s, b.lsn) ELSE s
             s2 == IF b.block # NoBlock
                   THEN [FileMgr_write(s1, b.block, b.contents)
                            EXCEPT !.diskLsn[b.block] = b.mlsn]
                   ELSE s1
         IN [s2 EXCEPT !.pool[i].txnum = None]
    ELSE s

\* An assignment that reads the new block over the page without flushing it
\* first (not what the code does).
Buffer_assign_to_block_noflush(s, i, blk) ==
    [s EXCEPT !.pool[i].block = blk,
              !.pool[i].contents = FileMgr_read(s, blk, @),
              !.pool[i].pins = 0,
              !.pool[i].txnum = None,
              !.pool[i].mlsn = IF blk < s.fileLen THEN s.diskLsn[blk] ELSE @]

\* Buffer::assign_to_block
Buffer_assign_to_block(s, i, blk) ==
    LET s1 == Buffer_flush(s, i) IN
    [s1 EXCEPT !.pool[i].block = blk,
               !.pool[i].contents = FileMgr_read(s1, blk, @),
               !.pool[i].pins = 0,
               !.pool[i].mlsn = IF blk < s1.fileLen THEN s1.diskLsn[blk] ELSE @]

\* ---------------------------------------------------------------------
\* Buffer manager
\* ---------------------------------------------------------------------
MinOf(S) == CHOOSE x \in S : \A y \in S : x <= y

\* BufferMgr::find_existing_buffer
find_existing_buffer(s, blk) ==
    LET S == {i \in DOMAIN s.pool : s.pool[i].block = blk} IN
    IF S = {} THEN NoIdx ELSE MinOf(S)

\* A choice that takes the first buffer, pinned or not.
choose_any_buffer(s) ==
    LET S == DOMAIN s.pool IN
    IF S = {} THEN NoIdx ELSE MinOf(S)

\* BufferMgr::choose_unpinned_buffer
choose_unpinned_buffer(s) ==
    LET S == {i \in DOMAIN s.pool : ~is_pinned(s.pool[i])} IN
    IF S = {} THEN NoIdx ELSE MinOf(S)

\* A take that counts the buffer as newly taken whatever its pin count.
TakeBuffer_always(s, idx) ==
    [s EXCEPT !.available = @ - 1,
              !.pool[idx].pins = @ + 1]

\* pool[idx] is taken by one more user: the tail shared by both branches of try_pin.
TakeBuffer(s, idx) ==
    [s EXCEPT !.available = IF is_pinned(s.pool[idx]) THEN @ ELSE @ - 1,
              !.pool[idx].pins = @ + 1]

\* A try_pin that never looks for a buffer already holding the block (not
\* what the code does).
try_pin_nofind(s, blk) ==
    LET u == choose_unpinned_buffer(s) IN
    IF u # NoIdx
    THEN [st |-> TakeBuffer(Buffer_assign_to_block(s, u, blk), u), idx |-> u]
    ELSE [st |-> s, idx |-> NoIdx]

\* BufferMgr::try_pin: the state after the call and the slot (NoIdx for None).
try_pin(s, blk) ==
    LET e == find_existing_buffer(s, blk) IN
    IF e # NoIdx
    THEN [st |-> TakeBuffer(s, e), idx |-> e]
    ELSE LET u == choose_unpinned_buffer(s) IN
         IF u # NoIdx
         THEN [st |-> TakeBuffer(Buffer_assign_to_block(s, u, blk), u), idx |-> u]
         ELSE [st |-> s, idx |-> NoIdx]

\* BufferMgr::pin.  The caller (BufferList::pin) holds the BufferMgr mutex for
\* the whole call, parked or not, so no unpin can run during the wait: every
\* retry sees the pool of the first try_pin, and a first None ends, once
\* MAX_TIME has elapsed, in Err (idx = NoIdx) with the pool untouched.
BufferMgr_pin(s, blk) == try_pin(s, blk)

\* An unpin that counts the buffer as available whatever pins are left
\* (not what the code does).
BufferMgr_unpin_always(s, idx) ==
    [s EXCEPT !.pool[idx].pins = @ - 1, !.available = @ + 1]

\* BufferMgr::unpin
BufferMgr_unpin(s, idx) ==
    LET s1 == [s EXCEPT !.pool[idx].pins = @ - 1] IN
    IF ~is_pinned(s1.pool[idx]) THEN [s1 EXCEPT !.available = @ + 1] ELSE s1

\* BufferMgr::flush_all, from buffer i to the last of the pool
RECURSIVE flush_from(_, _, _)
flush_from(s, txnum, i) ==
    IF i \notin DOMAIN s.pool THEN s
    ELSE flush_from(IF s.pool[i].txnum = Some(txnum) THEN Buffer_flush(s, i) ELSE s, txnum, i + 1)

BufferMgr_flush_all(s, txnum) == flush_from(s, txnum, 0)

\* ---------------------------------------------------------------------
\* BufferList of a transaction: buffers is the map block -> slot, pins the
\* list of pinned blocks, kept as the number of occurrences of each block.
\* ---------------------------------------------------------------------
\* BufferList::buffer
BufferList_buffer(s, t, blk) == s.txs[t].buffers[blk]

\* BufferList::pin, the match on the result of BufferMgr::pin: Ok(idx) is
\* recorded in buffers and pins, Err (idx = NoIdx) is dropped.
BufferList_pin_match(s, t, blk, idx) ==
    IF idx # NoIdx
    THEN [s EXCEPT !.txs[t].buffers[blk] = idx, !.txs[t].pins[blk] = @ + 1]
    ELSE s

\* BufferList::pin
BufferList_pin(s, t, blk) ==
    LET r == BufferMgr_pin(s, blk) IN
    BufferList_pin_match(r.st, t, blk, r.idx)

\* BufferList::unpin: one unpin of the buffer, every occurrence of blk leaves
\* pins, and the map forgets blk.
BufferList_unpin(s, t, blk) ==
    LET idx == s.txs[t].buffers[blk]
        s1 == IF idx # NoIdx THEN BufferMgr_unpin(s, idx) ELSE s
    IN [s1 EXCEPT !.txs[t].pins[blk] = 0, !.txs[t].buffers[blk] = NoIdx]

RECURSIVE unpin_times(_, _, _)
unpin_times(s, idx, n) ==
    IF n = 0 THEN s ELSE unpin_times(BufferMgr_unpin(s, idx), idx, n - 1)

RECURSIVE unpin_blocks(_, _, _)
unpin_blocks(s, t, b) ==
    IF b >= NBlocks THEN s
    ELSE LET idx == s.txs[t].buffers[b]
             s1 == IF idx # NoIdx THEN unpin_times(s, idx, s.txs[t].pins[b]) ELSE s
         IN unpin_blocks(s1, t, b + 1)

\* BufferList::unpin_all
BufferList_unpin_all(s, t) ==
    [unpin_blocks(s, t, 0) EXCEPT !.txs[t].buffers = [b \in Blocks |-> NoIdx],
                                  !.txs[t].pins = [b \in Blocks |-> 0]]

\* ---------------------------------------------------------------------
\* Lock table
\* ---------------------------------------------------------------------
MapPut(m, k, v) == [x \in (DOMAIN m) \cup {k} |-> IF x = k THEN v ELSE m[x]]
MapRemove(m, k) == [x \in (DOMAIN m) \ {k} |-> m[x]]
MapGetOr(m, k, d) == IF k \in DOMAIN m THEN m[k] ELSE d
EmptyMap == [x \in {} |-> 0]

\* LockTable::has_xlock
LockTable_has_xlock(lk, blk) == blk \in DOMAIN lk /\ lk[blk] < 0

\* LockTable::has_other_slocks
LockTable_has_other_slocks(lk, blk) == blk \in DOMAIN lk /\ lk[blk] > 1

\* LockTable::slock.  elapsed is read once, before the loop, and the caller
\* holds the LOCK_TABLE mutex: on an exclusively locked block the loop never ends.
LockTable_slock(s, blk) ==
    IF LockTable_has_xlock(s.locks, blk)
    THEN [s EXCEPT !.lt_stuck = TRUE]
    ELSE [s EXCEPT !.locks = MapPut(@, blk, MapGetOr(@, blk, 0) + 1)]

\* LockTable::xlock.  As in slock, elapsed is read once: on a block with
\* more than one shared lock the loop never ends.
LockTable_xlock(s, blk) ==
    IF LockTable_has_other_slocks(s.locks, blk)
    THEN [s EXCEPT !.lt_stuck = TRUE]
    ELSE [s EXCEPT !.locks = MapPut(@, blk, -1)]

\* An unlock that drops the entry whatever its count.
LockTable_unlock_drop(s, blk) ==
    [s EXCEPT !.locks = MapRemove(@, blk)]

\* LockTable::unlock
LockTable_unlock(s, blk) ==
    LET n == MapGetOr(s.locks, blk, 0) IN
    IF n > 1 THEN [s EXCEPT !.locks = MapPut(@, blk, n - 1)]
    ELSE [s EXCEPT !.locks = MapRemove(@, blk)]

\* ---------------------------------------------------------------------
\* Concurrency manager of a transaction
\* ---------------------------------------------------------------------
\* ConcurrencyMgr::has_xlock
ConcurrencyMgr_has_xlock(s, t, blk) == s.txs[t].locks[blk] = "XLock"

\* ConcurrencyMgr::slock
ConcurrencyMgr_slock(s, t, blk) ==
    IF s.txs[t].locks[blk] = "none"
    THEN LET s1 == LockTable_slock(s, blk) IN
         IF s1.lt_stuck THEN s1 ELSE [s1 EXCEPT !.txs[t].locks[blk] = "SLock"]
    ELSE s

\* An xlock that asks the lock table for the exclusive lock.
ConcurrencyMgr_xlock_table(s, t, blk) ==
    IF ~ConcurrencyMgr_has_xlock(s, t, blk)
    THEN LET s1 == ConcurrencyMgr_slock(s, t, blk)
             s2 == IF s1.lt_stuck THEN s1 ELSE LockTable_xlock(s1, blk)
         IN IF s2.lt_stuck THEN s2 ELSE [s2 EXCEPT !.txs[t].locks[blk] = "XLock"]
    ELSE s

\* ConcurrencyMgr::xlock: LockTable::xlock is never called.
ConcurrencyMgr_xlock(s, t, blk) ==
    IF ~ConcurrencyMgr_has_xlock(s, t, blk)
    THEN LET s1 == ConcurrencyMgr_slock(s, t, blk) IN
         IF s1.lt_stuck THEN s1 ELSE [s1 EXCEPT !.txs[t].locks[blk] = "XLock"]
    ELSE s

RECURSIVE unlock_blocks(_, _, _)
unlock_blocks(s, t, b) ==
    IF b >= NBlocks THEN s
    ELSE unlock_blocks(IF s.txs[t].locks[b] # "none" THEN LockTable_unlock(s, b) ELSE s,
                       t, b + 1)

\* ConcurrencyMgr::release
ConcurrencyMgr_release(s, t) ==
    [unlock_blocks(s, t, END_OF_FILE) EXCEPT !.txs[t].locks = [b \in LockKeys |-> "none"]]

\* ---------------------------------------------------------------------
\* Recovery manager and log record undo
\* ---------------------------------------------------------------------
NoPins == [b \in Blocks |-> 0]
NoBuffers == [b \in Blocks |-> NoIdx]
NoLocks == [b \in LockKeys |-> "none"]
NewTx == [status |-> "new", buffers |-> NoBuffers, pins |-> NoPins, locks |-> NoLocks]

\* RecoveryMgr::set_int: the pre-image is read from the buffer and logged.
RecoveryMgr_set_int(s, t, idx, offset) ==
    LogMgr_append(s, SetIntRecord(t, s.pool[idx].block, offset,
                                  s.pool[idx].contents[offset]))

\* RecoveryMgr::commit
RecoveryMgr_commit(s, t) ==
    LET s1 == BufferMgr_flush_all(s, t)
        s2 == LogMgr_append(s1, CommitRecord(t))
    IN LogMgr_flush_record(s2, s2.latest_lsn)

\* ---------------------------------------------------------------------
\* Transaction
\* ---------------------------------------------------------------------
\* next_txnum, first statement: NEXT_TXNUM.fetch_add(1)
fetch_add(s) == [s EXCEPT !.NEXT_TXNUM = @ + 1]

\* next_txnum, second statement: NEXT_TXNUM.load()
load(s) == s.NEXT_TXNUM

\* Transaction::new once it has its txnum (RecoveryMgr::new writes the Start record)
Transaction_build(s, t) ==
    LET s1 == LogMgr_append(s, StartRecord(t))
    IN [s1 EXCEPT !.txs[t] = [NewTx EXCEPT !.status = "active"]]

\* next_txnum + Transaction::new, run without interruption
Transaction_new(s) ==
    LET s1 == fetch_add(s)
    IN Transaction_build(s1, load(s1))

\* Transaction::size and Transaction::append, first statements: a shared
\* lock on the sentinel block of the file.
Transaction_lock_end(s, t) == ConcurrencyMgr_slock(s, t, END_OF_FILE)

\* FileMgr::length of the data file
length(s) == s.fileLen

\* FileMgr::append once it has computed number: a block of zeros is written there.
append_write(s, number) == FileMgr_write(s, number, ZeroPage)

\* Transaction::size: the state after the call; its result is length of that state.
Transaction_size(s, t) == Transaction_lock_end(s, t)

\* Transaction::append run without interruption: the state after the call;
\* the block number returned is the length before it.
Transaction_append(s, t) ==
    LET s1 == Transaction_lock_end(s, t) IN append_write(s1, length(s1))

\* Transaction::pin
Transaction_pin(s, t, blk) == BufferList_pin(s, t, blk)

\* An unpin that gives the locks of the transaction back (not what the code does).
Transaction_unpin_release(s, t, blk) ==
    ConcurrencyMgr_release(BufferList_unpin(s, t, blk), t)

\* Transaction::unpin
Transaction_unpin(s, t, blk) == BufferList_unpin(s, t, blk)

\* Transaction::get_int: the state after the call ...
Transaction_get_int(s, t, blk) == ConcurrencyMgr_slock(s, t, blk)

\* ... and its result (NoVal for None)
get_int_result(s, t, blk, offset) ==
    LET idx == BufferList_buffer(s, t, blk) IN
    IF idx # NoIdx THEN s.pool[idx].contents[offset] ELSE NoVal

\* Transaction::set_int after cm.xlock: the match on buffers.buffer(blk),
\* whose Some arm runs under the buffer manager's mutex.
set_int_write(s1, t, blk, offset, val, log) ==
    LET idx == BufferList_buffer(s1, t, blk)
    IN IF idx = NoIdx THEN s1
       ELSE LET s2 == IF log THEN RecoveryMgr_set_int(s1, t, idx, offset) ELSE s1
                lsn == IF log THEN s2.latest_lsn ELSE -1
            IN [s2 EXCEPT !.pool[idx] =
                    Buffer_set_modified([@ EXCEPT !.contents[offset] = val,
                                                  !.mlsn = IF log THEN lsn ELSE @],
                                        t, lsn)]

\* Transaction::set_int
Transaction_set_int(s, t, blk, offset, val, log) ==
    LET s1 == ConcurrencyMgr_xlock(s, t, blk)
    IN IF s1.lt_stuck THEN s1 ELSE set_int_write(s1, t, blk, offset, val, log)

\* SetIntRecord::undo; the undo of every other record does nothing.
undo(s, t, lr) ==
    IF lr.op = OpSetInt
    THEN Transaction_unpin(
             Transaction_set_int(Transaction_pin(s, t, lr.blk),
                                 t, lr.blk, lr.offset, lr.val, FALSE),
             t, lr.blk)
    ELSE s

\* The loop of Transaction::do_rollback over the records of the iterator.
\* lr.txnum().unwrap() panics on a Checkpoint record, whose txnum is None.
RECURSIVE do_rollback_loop(_, _, _)
do_rollback_loop(s, t, recs) ==
    IF recs = << >> \/ s.lt_stuck THEN s
    ELSE LET lr == Head(recs) IN
         IF lr.op = OpCheckpoint THEN [s EXCEPT !.panicked = TRUE]
         ELSE IF lr.txnum = t
              THEN IF lr.op = OpStart THEN s
                   ELSE do_rollback_loop(undo(s, t, lr), t, Tail(recs))
              ELSE do_rollback_loop(s, t, Tail(recs))

\* Transaction::do_rollback
Transaction_do_rollback(s, t) ==
    do_rollback_loop(LogMgr_flush(s), t, LogMgr_iterator(s))

\* Transaction::commit
Transaction_commit(s, t) ==
    LET s1 == RecoveryMgr_commit(s, t)
        s2 == BufferList_unpin_all(ConcurrencyMgr_release(s1, t), t)
    IN [s2 EXCEPT !.txs[t].status = "committed"]

\* Transaction::rollback
Transaction_rollback(s, t) ==
    LET s1 == Transaction_do_rollback(s, t) IN
    IF s1.panicked \/ s1.lt_stuck THEN [s1 EXCEPT !.txs[t].status = "panicked"]
    ELSE LET s2 == BufferMgr_flush_all(s1, t)
             s3 == LogMgr_append(s2, RollbackRecord(t))
             s4 == LogMgr_flush_record(s3, s3.latest_lsn)
             s5 == BufferList_unpin_all(ConcurrencyMgr_release(s4, t), t)
         IN [s5 EXCEPT !.txs[t].status = "rolledback"]

\* The loop of Transaction::do_recover
RECURSIVE do_recover_loop(_, _, _, _)
do_recover_loop(s, t, recs, finished_txs) ==
    IF recs = << >> \/ s.lt_stuck THEN s
    ELSE LET lr == Head(recs) IN
         IF lr.op = OpCheckpoint THEN s
         ELSE IF lr.op \in {OpCommit, OpRollback}
              THEN do_recover_loop(s, t, Tail(recs), finished_txs \cup {lr.txnum})
              ELSE IF lr.txnum \notin finished_txs
                   THEN do_recover_loop(undo(s, t, lr), t, Tail(recs), finished_txs)
                   ELSE do_recover_loop(s, t, Tail(recs), finished_txs)

\* Transaction::do_recover
Transaction_do_recover(s, t) ==
    do_recover_loop(LogMgr_flush(s), t, LogMgr_iterator(s), {})

\* A recover that writes no Checkpoint record (not what the code does).
Transaction_recover_nocheckpoint(s, t) ==
    LET s1 == Transaction_do_recover(BufferMgr_flush_all(s, t), t) IN
    IF s1.lt_stuck THEN [s1 EXCEPT !.txs[t].status = "panicked"]
    ELSE [BufferMgr_flush_all(s1, t) EXCEPT !.txs[t].status = "recovered"]

\* Transaction::recover; the transaction object is dropped afterwards.
Transaction_recover(s, t) ==
    LET s1 == Transaction_do_recover(BufferMgr_flush_all(s, t), t) IN
    IF s1.lt_stuck THEN [s1 EXCEPT !.txs[t].status = "panicked"]
    ELSE LET s2 == BufferMgr_flush_all(s1, t)
             s3 == LogMgr_append(s2, CheckpointRecord)
             s4 == LogMgr_flush_record(s3, s3.latest_lsn)
         IN [s4 EXCEPT !.txs[t].status = "recovered"]

\* ---------------------------------------------------------------------
\* Byte level: Page.  A page is the sequence of its bytes; the byte at
\* offset o is p[o + 1].  A panic (unwrap of None, slice out of range) is
\* the result [ok |-> FALSE].
\* ---------------------------------------------------------------------
\* Page::new / vec![0; block_size]
Page_new(size) == [i \in 1..size |-> 0]

\* Page::get_byte (NoVal for None)
Page_get_byte(p, offset) == IF offset < Len(p) THEN p[offset + 1] ELSE NoVal

\* Page::set_byte
Page_set_byte(p, offset, value) == [p EXCEPT ![offset + 1] = value]

\* Page::get_bytes: the length is the one byte at offset.
Page_get_bytes(p, offset) ==
    LET len == Page_get_byte(p, offset) IN
    IF len = NoVal \/ offset + 4 + len > Len(p)
    THEN [ok |-> FALSE, val |-> << >>]
    ELSE [ok |-> TRUE, val |-> SubSeq(p, offset + 4 + 1, offset + 4 + len)]

\* Page::set_bytes: value.len() as u8 goes to the byte at offset, the three
\* bytes after it are left as they were, the value follows at offset + 4.
Page_set_bytes(p, offset, value) ==
    [i \in 1..Len(p) |->
        IF i = offset + 1 THEN Len(value) % U8
        ELSE IF i > offset + 4 /\ i <= offset + 4 + Len(value) THEN value[i - offset - 4]
        ELSE p[i]]

\* Page::get_int: i32::from_be_bytes of four bytes, two's complement: a first
\* byte of 128 or more makes the value negative.
Page_get_int(p, offset) ==
    LET b0 == p[offset + 1]
        hi == IF b0 >= U8 \div 2 THEN b0 - U8 ELSE b0
    IN ((hi * U8 + p[offset + 2]) * U8 + p[offset + 3]) * U8 + p[offset + 4]

\* Page::set_int
Page_set_int(p, offset, value) ==
    [p EXCEPT ![offset + 1] = (value \div (U8 * U8 * U8)) % U8,
              ![offset + 2] = (value \div (U8 * U8)) % U8,
              ![offset + 3] = (value \div U8) % U8,
              ![offset + 4] = value % U8]

\* ---------------------------------------------------------------------
\* Byte level: the log file, the sequence of its blocks
\* ---------------------------------------------------------------------
\* FileMgr::length
FileMgr_length(file) == Len(file)

\* FileMgr::append: a block of zeros at the end; its number is the old length.
FileMgr_append(file) == Append(file, Page_new(LogBlockSize))

\* FileMgr::write with the seek at the end of the file at most: a write past
\* the end is refused (not what the code does).
FileMgr_write_block_inplace(file, n, page) ==
    IF n < Len(file) THEN [file EXCEPT ![n + 1] = page] ELSE file

\* FileMgr::write of block number n: the seek goes to n * block_size and the
\* page is written there; past the end the file grows to n + 1 blocks and the
\* blocks in between read as zeros.
FileMgr_write_block(file, n, page) ==
    [i \in 1..Max(Len(file), n + 1) |->
        IF i = n + 1 THEN page
        ELSE IF i <= Len(file) THEN file[i]
        ELSE Page_new(Len(page))]

\* FileMgr::read of block number n: nothing is read past the end of the file.
FileMgr_read_block(file, n, page) == IF n < Len(file) THEN file[n + 1] ELSE page

\* ---------------------------------------------------------------------
\* Byte level: LogMgr.  l is the record of its fields and of the log file.
\* ---------------------------------------------------------------------
\* LogMgr::new on an empty log file
LogMgrB_new ==
    LET page == Page_set_int(Page_new(LogBlockSize), 0, LogBlockSize)
        file == FileMgr_write_block(FileMgr_append(<< >>), 0, page)
    IN [file |-> file, page |-> page, current_block |-> 0,
        latest_lsn |-> 0, last_saved_lsn |-> 0]

\* LogMgr::flush
LogMgrB_flush(l) ==
    [l EXCEPT !.file = FileMgr_write_block(@, l.current_block, l.page),
              !.last_saved_lsn = l.latest_lsn]

\* LogMgr::append_new_block: the page keeps the bytes of the block before.
LogMgrB_append_new_block(l) ==
    LET number == FileMgr_length(l.file)
        file == FileMgr_append(l.file)
        page == Page_set_int(l.page, 0, LogBlockSize)
    IN [l EXCEPT !.file = FileMgr_write_block(file, number, page),
                 !.page = page,
                 !.current_block = number]

\* An append that places the record without room for the four bytes in
\* front of it (not what the code does).
LogMgrB_append_overlap(l, record) ==
    LET bytes_needed == Len(record) + 4
        l1 == IF Page_get_int(l.page, 0) - bytes_needed < 4
              THEN LogMgrB_append_new_block(LogMgrB_flush(l))
              ELSE l
        record_position == Page_get_int(l1.page, 0) - Len(record)
    IN [l1 EXCEPT !.page = Page_set_int(Page_set_bytes(@, record_position - 4, record),
                                         0, record_position),
                  !.latest_lsn = @ + 1]

\* LogMgr::append
LogMgrB_append(l, record) ==
    LET bytes_needed == Len(record) + 4
        l1 == IF Page_get_int(l.page, 0) - bytes_needed < 4
              THEN LogMgrB_append_new_block(LogMgrB_flush(l))
              ELSE l
        record_position == Page_get_int(l1.page, 0) - bytes_needed
    IN [l1 EXCEPT !.page = Page_set_int(Page_set_bytes(@, record_position, record),
                                         0, record_position),
                  !.latest_lsn = @ + 1]

\* ---------------------------------------------------------------------
\* Byte level: LogIterator
\* ---------------------------------------------------------------------
NoIter == [st |-> "none", block |-> 0, page |-> << >>, currentpos |-> 0, boundary |-> 0]

\* LogIterator::move_to_block
LogIterator_move_to_block(it, file, block) ==
    LET page == FileMgr_read_block(file, block, it.page) IN
    [it EXCEPT !.block = block, !.page = page,
               !.boundary = Page_get_int(page, 0),
               !.currentpos = Page_get_int(page, 0)]

\* LogIterator::new
LogIterator_new(file, block) ==
    LogIterator_move_to_block(
        [st |-> "open", block |-> block, page |-> Page_new(LogBlockSize),
         currentpos |-> 0, boundary |-> 0],
        file, block)

\* LogMgr::iterator
LogMgrB_iterator(l) == LogIterator_new(LogMgrB_flush(l).file, l.current_block)

\* LogIterator::next: the iterator afterwards (st "done" after None, "panicked"
\* after a panic) and the record returned.
LogIterator_next(it, file) ==
    IF it.currentpos >= LogBlockSize /\ it.block <= 0
    THEN [it |-> [it EXCEPT !.st = "done"], some |-> FALSE, record |-> << >>]
    ELSE LET it1 == IF it.currentpos = LogBlockSize
                    THEN LogIterator_move_to_block(it, file, it.block - 1)
                    ELSE it
             r == Page_get_bytes(it1.page, it1.currentpos)
         IN IF ~r.ok
            THEN [it |-> [it1 EXCEPT !.st = "panicked"], some |-> FALSE, record |-> << >>]
            ELSE [it |-> [it1 EXCEPT !.currentpos = @ + 4 + Len(r.val)],
                  some |-> TRUE, record |-> r.val]

\* ---------------------------------------------------------------------
\* History kept beside the program state
\* ---------------------------------------------------------------------
NoCells == [b \in Blocks |-> [o \in Cells |-> NoVal]]
NoFlags == [b \in Blocks |-> [o \in Cells |-> FALSE]]
NoHist == [nwrites |-> 0, pre |-> [t \in TxNums |-> NoCells],
           interf |-> [t \in TxNums |-> NoFlags],
           wrote |-> [t \in TxNums |-> NoCells],
           committed |-> NoCells]

\* Transaction t stored val at (blk, offset); old was there before.
HistWrite(h, t, blk, offset, old, val, log) ==
    [h EXCEPT
       !.nwrites = @ + 1,
       !.wrote[t][blk][offset] = val,
       !.pre[t][blk][offset] = IF log /\ @ = NoVal THEN old ELSE @,
       !.interf = [u \in TxNums |-> IF u # t /\ h.pre[u][blk][offset] # NoVal
                                    THEN [h.interf[u] EXCEPT ![blk][offset] = TRUE]
                                    ELSE h.interf[u]]]

\* The rollback of t stored pre-images where t had logged a change.
HistUndo(h, t) ==
    [h EXCEPT
       !.interf = [u \in TxNums |->
                     IF u = t THEN h.interf[u]
                     ELSE [b \in Blocks |-> [o \in Cells |->
                             h.interf[u][b][o]
                             \/ (h.pre[t][b][o] # NoVal /\ h.pre[u][b][o] # NoVal)]]]]

\* t committed: its values become the committed ones.
HistCommit(h, t) ==
    [h EXCEPT
       !.committed = [b \in Blocks |-> [o \in Cells |->
                        IF h.wrote[t][b][o] # NoVal THEN h.wrote[t][b][o] ELSE @[b][o]]]]

\* ---------------------------------------------------------------------
\* Initial state: an empty database directory, LogMgr::new on an empty log
\* file, BufferMgr::new, an empty lock table, NEXT_TXNUM = 0.
\* ---------------------------------------------------------------------
NoThread == 0

\* Everything but the transactions, the buffer pool and the threads.
InitStore ==
    /\ NEXT_TXNUM = 0
    /\ locks = EmptyMap
    /\ lt_stuck = FALSE
    /\ disk = [b \in Blocks |-> ZeroPage]
    /\ fileLen = 0
    /\ logdisk = << << >> >>
    /\ logpage = << >>
    /\ current_block = 0
    /\ latest_lsn = 0
    /\ last_saved_lsn = 0
    /\ needRecover = FALSE
    /\ crashes = 0
    /\ diskLsn = [b \in Blocks |-> 0]
    /\ hist = NoHist
    /\ blog = LogMgrB_new
    /\ iter = NoIter
    /\ appended = << >>
    /\ yielded = << >>

\* The state after construction of a FileMgr, a LogMgr and a BufferMgr of
\* nbufs buffers, with room for ntx transactions.
FreshStore(ntx, nbufs) ==
    [ NEXT_TXNUM |-> 0, txs |-> [t \in 1..ntx |-> NewTx], locks |-> EmptyMap,
      lt_stuck |-> FALSE, pool |-> [i \in 0..(nbufs - 1) |-> NewBuffer],
      available |-> nbufs, disk |-> [b \in Blocks |-> ZeroPage], fileLen |-> 0,
      logdisk |-> << << >> >>, logpage |-> << >>, current_block |-> 0,
      latest_lsn |-> 0, last_saved_lsn |-> 0, diskLsn |-> [b \in Blocks |-> 0],
      panicked |-> FALSE ]

\* n calls of Transaction::new, one after the other
RECURSIVE AfterNews(_, _)
AfterNews(s, n) == IF n = 0 THEN s ELSE AfterNews(Transaction_new(s), n - 1)

\* The run starts in state s.
StartFrom(s) ==
    /\ NEXT_TXNUM = s.NEXT_TXNUM
    /\ txs = s.txs
    /\ locks = s.locks
    /\ lt_stuck = s.lt_stuck
    /\ pool = s.pool
    /\ available = s.available
    /\ disk = s.disk
    /\ fileLen = s.fileLen
    /\ logdisk = s.logdisk
    /\ logpage = s.logpage
    /\ current_block = s.current_block
    /\ latest_lsn = s.latest_lsn
    /\ last_saved_lsn = s.last_saved_lsn
    /\ diskLsn = s.diskLsn
    /\ needRecover = FALSE
    /\ crashes = 0
    /\ hist = NoHist
    /\ blog = LogMgrB_new
    /\ iter = NoIter
    /\ appended = << >>
    /\ yielded = << >>

\* No thread is modelled: every call runs as one step.
InitNoThreads ==
    /\ thr = << >>
    /\ now = 0
    /\ mutex = NoThread

Init ==
    /\ InitStore
    /\ txs = [t \in TxNums |-> NewTx]
    /\ pool = [i \in BufIdx |-> NewBuffer]
    /\ available = NBufs
    /\ InitNoThreads

Active(t) == txs[t].status = "active"
Running == ~needRecover /\ ~lt_stuck

\* ---------------------------------------------------------------------
\* Steps
\* ---------------------------------------------------------------------
New ==
    /\ NEXT_TXNUM < (IF crashes = 0 THEN MaxTx ELSE MaxTxRestart)
    /\ needRecover => NEXT_TXNUM = 0
    /\ Install(Transaction_new(Cur))
    /\ UNCHANGED thrvars
    /\ UNCHANGED << needRecover, crashes, hist >>

\* The pin counts are capped: a pin that unpin or rollback leaves behind
\* in the pool would otherwise let them grow without bound.
PinsOf(blk) ==
    LET i == find_existing_buffer(Cur, blk) IN
    IF i = NoIdx THEN 0 ELSE pool[i].pins

Pin(t, blk) ==
    /\ Running /\ Active(t)
    /\ txs[t].pins[blk] < MaxPins
    /\ PinsOf(blk) < MaxPoolPins
    /\ Install(Transaction_pin(Cur, t, blk))
    /\ UNCHANGED thrvars
    /\ UNCHANGED << needRecover, crashes, hist >>

Unpin(t, blk) ==
    /\ Running /\ Active(t)
    /\ Install(Transaction_unpin(Cur, t, blk))
    /\ UNCHANGED thrvars
    /\ UNCHANGED << needRecover, crashes, hist >>

GetInt(t, blk) ==
    /\ Running /\ Active(t)
    /\ Install(Transaction_get_int(Cur, t, blk))
    /\ UNCHANGED thrvars
    /\ UNCHANGED << needRecover, crashes, hist >>

SetInt(t, blk, offset, val, log) ==
    /\ Running /\ Active(t)
    /\ txs[t].buffers[blk] # NoIdx => hist.nwrites < MaxWrites
    /\ Install(Transaction_set_int(Cur, t, blk, offset, val, log))
    /\ UNCHANGED thrvars
    /\ hist' = IF txs[t].buffers[blk] # NoIdx
               THEN HistWrite(hist, t, blk, offset,
                              pool[txs[t].buffers[blk]].contents[offset], val, log)
               ELSE hist
    /\ UNCHANGED << needRecover, crashes >>

Commit(t) ==
    /\ Running /\ Active(t)
    /\ Install(Transaction_commit(Cur, t))
    /\ UNCHANGED thrvars
    /\ hist' = HistCommit(hist, t)
    /\ UNCHANGED << needRecover, crashes >>

Rollback(t) ==
    /\ Running /\ Active(t)
    /\ Install(Transaction_rollback(Cur, t))
    /\ UNCHANGED thrvars
    /\ hist' = HistUndo(hist, t)
    /\ UNCHANGED << needRecover, crashes >>

\* A transaction that has done nothing yet runs restart recovery.
Recover(t) ==
    /\ needRecover /\ Active(t)
    /\ Install(Transaction_recover(Cur, t))
    /\ UNCHANGED thrvars
    /\ needRecover' = FALSE
    /\ UNCHANGED << crashes, hist >>

\* The process dies and is started again: the disk stays, FileMgr, LogMgr,
\* BufferMgr, LOCK_TABLE and NEXT_TXNUM are built anew (LogMgr::new reads the
\* last block of the log file).
Crash ==
    /\ ~needRecover
    /\ crashes < MaxCrash
    /\ crashes' = crashes + 1
    /\ needRecover' = TRUE
    /\ NEXT_TXNUM' = 0
    /\ txs' = [t \in TxNums |-> NewTx]
    /\ locks' = EmptyMap
    /\ lt_stuck' = FALSE
    /\ pool' = [i \in BufIdx |-> NewBuffer]
    /\ available' = NBufs
    /\ logpage' = logdisk[Len(logdisk)]
    /\ current_block' = Len(logdisk) - 1
    /\ latest_lsn' = 0
    /\ last_saved_lsn' = 0
    /\ diskLsn' = [b \in Blocks |-> 0]
    /\ hist' = [NoHist EXCEPT !.committed = hist.committed]
    /\ UNCHANGED << disk, fileLen, logdisk >>
    /\ UNCHANGED logvars
    /\ UNCHANGED thrvars

Next ==
    \/ New
    \/ \E t \in TxNums, blk \in Blocks : Pin(t, blk)
    \/ \E t \in TxNums, blk \in Blocks : Unpin(t, blk)
    \/ \E t \in TxNums, blk \in Blocks : GetInt(t, blk)
    \/ \E t \in TxNums, blk \in Blocks, offset \in Cells, val \in Values, log \in BOOLEAN :
          SetInt(t, blk, offset, val, log)
    \/ \E t \in TxNums : Commit(t)
    \/ \E t \in TxNums : Rollback(t)
    \/ \E t \in TxNums : Recover(t)
    \/ Crash

Spec == Init /\ [][Next]_vars

\* ---------------------------------------------------------------------
\* Steps of the byte-level log: a thread appends records, then reads the
\* log back with an iterator until it ends, and drops the iterator.
\* ---------------------------------------------------------------------
LogLens == {SmallLen, MidLen, BigLen}

\* A record of len bytes, every byte the fill.
MkRecord(len, fill) == [i \in 1..len |-> fill]

\* lm.append(record) of a record that fits in an empty block; the fill is
\* the LSN the record gets.
LogAppend(len) ==
    /\ iter.st = "none"
    /\ Len(appended) < MaxRecs
    /\ len + 4 <= LogBlockSize - 4
    /\ blog' = LogMgrB_append(blog, MkRecord(len, blog.latest_lsn + 1))
    /\ appended' = Append(appended, << len, blog.latest_lsn + 1 >>)
    /\ UNCHANGED << iter, yielded >>
    /\ UNCHANGED mainvars
    /\ UNCHANGED thrvars

\* lm.iterator()
LogIterate ==
    /\ iter.st = "none"
    /\ blog' = LogMgrB_flush(blog)
    /\ iter' = LogMgrB_iterator(blog)
    /\ yielded' = << >>
    /\ UNCHANGED appended
    /\ UNCHANGED mainvars
    /\ UNCHANGED thrvars

\* iter.next()
LogNext ==
    /\ iter.st = "open"
    /\ LET r == LogIterator_next(iter, blog.file) IN
          /\ iter' = r.it
          /\ yielded' = IF r.some THEN Append(yielded, r.record) ELSE yielded
    /\ UNCHANGED << blog, appended >>
    /\ UNCHANGED mainvars
    /\ UNCHANGED thrvars

\* The iterator is dropped after it ended.
LogDrop ==
    /\ iter.st = "done"
    /\ iter' = NoIter
    /\ yielded' = << >>
    /\ UNCHANGED << blog, appended >>
    /\ UNCHANGED mainvars
    /\ UNCHANGED thrvars

NextLog ==
    \/ \E len \in LogLens : LogAppend(len)
    \/ LogIterate
    \/ LogNext
    \/ LogDrop

SpecLog == Init /\ [][NextLog]_vars

\* ---------------------------------------------------------------------
\* Properties.  A block at or past the end of the data file counts as a
\* block of zeros (disk keeps zeros there).
\* ---------------------------------------------------------------------
CommitDone(t) == txs[t].status = "active" /\ txs'[t].status = "committed"
RollbackDone(t) == txs[t].status = "active" /\ txs'[t].status = "rolledback"
RecoverDone(t) == txs[t].status = "active" /\ txs'[t].status = "recovered"

\* C1: when rollback() of T returns, every cell T changed with a logged
\* set_int, and that no other transaction wrote since, holds the value it had
\* before T's first logged write: on disk, and in the buffer holding the
\* block if there is one.
C1_RollbackRestores ==
    [][\A t \in TxNums : RollbackDone(t) =>
          \A b \in Blocks, o \in Cells :
             (hist.pre[t][b][o] # NoVal /\ ~hist.interf[t][b][o]) =>
                /\ disk'[b][o] = hist.pre[t][b][o]
                /\ \A i \in BufIdx : pool'[i].block = b =>
                                        pool'[i].contents[o] = hist.pre[t][b][o]]_vars

\* C2: when the recover() that follows a restart returns, every cell written
\* by a committed transaction holds on disk the value of the last transaction
\* that committed a write to it.
C2_CommittedSurviveRestart ==
    [][\A t \in TxNums : (needRecover /\ RecoverDone(t)) =>
          \A b \in Blocks, o \in Cells :
             hist.committed[b][o] # NoVal =>
                disk'[b][o] = hist.committed[b][o]]_vars

\* The records recover() scans: from the tail back to the first Checkpoint.
RECURSIVE UpToCheckpoint(_)
UpToCheckpoint(recs) ==
    IF recs = << >> \/ Head(recs).op = OpCheckpoint THEN << >>
    ELSE << Head(recs) >> \o UpToCheckpoint(Tail(recs))

LogHas(recs, op, u) == \E k \in 1..Len(recs) : recs[k].op = op /\ recs[k].txnum = u

\* The pre-image of the oldest SetInt record of u for (b, o) in recs (newest
\* first), NoVal if there is none.
RECURSIVE FirstPreImage(_, _, _, _)
FirstPreImage(recs, u, b, o) ==
    IF recs = << >> THEN NoVal
    ELSE LET older == FirstPreImage(Tail(recs), u, b, o)
             r == Head(recs)
         IN IF older # NoVal THEN older
            ELSE IF r.op = OpSetInt /\ r.txnum = u /\ r.blk = b /\ r.offset = o
                 THEN r.val ELSE NoVal

\* C3: when recover() returns, every cell that a transaction with neither a
\* Commit nor a Rollback record changed with a logged set_int after the last
\* Checkpoint holds on disk the value it had before that transaction's first
\* write.
C3_RecoverUndoesUnfinished ==
    [][\A t \in TxNums : RecoverDone(t) =>
          LET all == LogMgr_iterator(Cur)
              scanned == UpToCheckpoint(all)
          IN \A u \in TxNums, b \in Blocks, o \in Cells :
                ( /\ ~LogHas(all, OpCommit, u)
                  /\ ~LogHas(all, OpRollback, u)
                  /\ FirstPreImage(scanned, u, b, o) # NoVal ) =>
                     disk'[b][o] = FirstPreImage(scanned, u, b, o)]_vars

\* Highest LSN whose record is in the log file.
OnDiskLsn == latest_lsn - Unflushed(logdisk, logpage, current_block)

\* C4: write-ahead logging: the record of every logged change contained in a
\* data page on disk is in the log file, never only in the in-memory tail.
C4_WriteAheadLog == \A b \in Blocks : diskLsn[b] <= OnDiskLsn

\* A data page holding a logged change is on disk before any transaction has
\* committed or rolled back: the page was written by assign_to_block when
\* its buffer was given to another block.
C4_Witness ==
    /\ crashes = 0
    /\ \A t \in TxNums : txs[t].status \in {"new", "active"}
    /\ \E b \in Blocks : diskLsn[b] > 0 /\ b < fileLen

RECURSIVE Flatten(_)
Flatten(ld) == IF ld = << >> THEN << >> ELSE Head(ld) \o Flatten(Tail(ld))

\* C5: when commit() of T returns, every cell T wrote holds T's value on disk
\* and the Commit record of T and every older record are in the log file.
C5_CommitDurable ==
    [][\A t \in TxNums : CommitDone(t) =>
          /\ \A b \in Blocks, o \in Cells :
                hist.wrote[t][b][o] # NoVal =>
                   disk'[b][o] = hist.wrote[t][b][o]
          /\ logdisk'[current_block' + 1] = logpage'
          /\ LogHas(Flatten(logdisk'), OpCommit, t)]_vars

\* C6: no two transactions record an exclusive lock on the same block, nor
\* one an exclusive and another a shared lock.
C6_ExclusiveExcludes ==
    \A t \in TxNums, u \in TxNums, b \in Blocks :
        (t # u /\ txs[t].locks[b] = "XLock") => txs[u].locks[b] = "none"

Holders(b, type) == {t \in TxNums : txs[t].locks[b] = type}

\* C7: the lock-table entry of a block is absent with no holder, or the
\* number of its shared holders with no exclusive holder, or the exclusive
\* sentinel -1 with exactly one exclusive holder and no shared holder.
C7_LockTableSafety ==
    \A b \in Blocks :
        \/ b \notin DOMAIN locks /\ Holders(b, "SLock") = {} /\ Holders(b, "XLock") = {}
        \/ /\ b \in DOMAIN locks /\ locks[b] > 0
           /\ locks[b] = Cardinality(Holders(b, "SLock"))
           /\ Holders(b, "XLock") = {}
        \/ /\ b \in DOMAIN locks /\ locks[b] = -1
           /\ Cardinality(Holders(b, "XLock")) = 1
           /\ Holders(b, "SLock") = {}

\* Pins of buffer i held by the transactions in T.
RECURSIVE PinsHeld(_, _, _)
PinsHeld(tt, i, T) ==
    IF T = {} THEN 0
    ELSE LET u == CHOOSE x \in T : TRUE
             n == IF tt[u].status = "active"
                  THEN LET B == {b \in Blocks : tt[u].buffers[b] = i} IN
                       IF B = {} THEN 0 ELSE tt[u].pins[CHOOSE b \in B : TRUE]
                  ELSE 0
         IN n + PinsHeld(tt, i, T \ {u})

\* C9: when commit() or rollback() of T returns, the pin count of every
\* buffer is the number of pins held by the other live transactions; with
\* none live, every buffer is unpinned and available is the pool size.
C9_NoPinsLeft ==
    [][\A t \in TxNums : (CommitDone(t) \/ RollbackDone(t)) =>
          /\ \A i \in BufIdx : pool'[i].pins = PinsHeld(txs', i, TxNums \ {t})
          /\ (\A u \in TxNums : txs'[u].status # "active") => available' = NBufs]_vars

Count(lk, b) == MapGetOr(lk, b, 0)
\* The records an iterator has to return: the appended ones, newest first.
RECURSIVE Expected(_)
Expected(app) ==
    IF app = << >> THEN << >>
    ELSE Append(Expected(Tail(app)), MkRecord(Head(app)[1], Head(app)[2]))

IsPrefix(p, q) == Len(p) <= Len(q) /\ SubSeq(q, 1, Len(p)) = p

\* C8: an iterator returns the appended records newest first, each once:
\* what it has returned so far is a prefix of the appended records in
\* reverse order, it does not panic, and when it ends it has returned all.
C8_IteratorNewestFirst ==
    /\ iter.st # "panicked"
    /\ iter.st \in {"open", "done"} => IsPrefix(yielded, Expected(appended))
    /\ iter.st = "done" => yielded = Expected(appended)

Finished(st) == st \in {"new", "committed", "rolledback"}

\* C10: when commit() or rollback() of T returns, T's lock map is empty and
\* the count of every block T had locked is one less (the entry gone at
\* zero), the other entries are as before; with every transaction finished
\* the lock table is empty.
C10_LocksReleased ==
    [][\A t \in TxNums : (CommitDone(t) \/ RollbackDone(t)) =>
          /\ txs'[t].locks = NoLocks
          /\ \A b \in Blocks :
                /\ Count(locks', b) = Count(locks, b) - (IF txs[t].locks[b] # "none" THEN 1 ELSE 0)
                /\ b \in DOMAIN locks' <=> Count(locks', b) > 0
          /\ (\A u \in TxNums : Finished(txs'[u].status)) => locks' = EmptyMap]_vars

\* A transaction that wrote a block, and so had it locked, has committed or
\* rolled back and holds no lock, while another writer of the block is
\* still active and is the one holder left in the lock table.
C10_Witness ==
    \E t \in TxNums, u \in TxNums, b \in Blocks :
        /\ txs[t].status \in {"committed", "rolledback"}
        /\ \E o \in Cells : hist.wrote[t][b][o] # NoVal /\ hist.wrote[u][b][o] # NoVal
        /\ txs[t].locks = NoLocks
        /\ txs[u].status = "active" /\ txs[u].locks[b] = "XLock"
        /\ b \in DOMAIN locks /\ locks[b] = 1

\* =====================================================================
\* Threads constructing transactions: next_txnum statement by statement
\* =====================================================================
NThreads == 3
MaxNews == 2

Threads == 1..NThreads

\* A thread between two calls, with the txnums its calls returned so far.
IdleThread == [pc |-> "idle", txnum |-> NoTx, got |-> << >>]

InitTxnum ==
    /\ InitStore
    /\ txs = [t \in 1..(NThreads * MaxNews) |-> NewTx]
    /\ pool = [i \in BufIdx |-> NewBuffer]
    /\ available = NBufs
    /\ thr = [i \in Threads |-> IdleThread]
    /\ now = 0
    /\ mutex = NoThread

\* Thread i enters Transaction::new and runs NEXT_TXNUM.fetch_add(1).
NewFetchAdd(i) ==
    /\ thr[i].pc = "idle"
    /\ Len(thr[i].got) < MaxNews
    /\ Install(fetch_add(Cur))
    /\ thr' = [thr EXCEPT ![i].pc = "added"]
    /\ UNCHANGED << now, mutex, needRecover, crashes, hist >>

\* Thread i runs NEXT_TXNUM.load(): next_txnum returns what the counter holds now.
NewLoad(i) ==
    /\ thr[i].pc = "added"
    /\ thr' = [thr EXCEPT ![i].pc = "loaded", ![i].txnum = load(Cur)]
    /\ UNCHANGED << mainvars, logvars, now, mutex >>

\* Thread i runs the rest of Transaction::new with the txnum it loaded:
\* RecoveryMgr::new appends the Start record under the log manager's mutex.
NewBuild(i) ==
    /\ thr[i].pc = "loaded"
    /\ Install(Transaction_build(Cur, thr[i].txnum))
    /\ thr' = [thr EXCEPT ![i].pc = "idle", ![i].got = Append(@, thr[i].txnum)]
    /\ UNCHANGED << now, mutex, needRecover, crashes, hist >>

NextTxnum == \E i \in Threads : NewFetchAdd(i) \/ NewLoad(i) \/ NewBuild(i)

SpecTxnum == InitTxnum /\ [][NextTxnum]_vars

\* C11: every Transaction::new call returns a txnum that no other call of
\* the process returned, also when the calls run on different threads.
C11_TxnumsDistinct ==
    \A i, j \in Threads :
        \A m \in DOMAIN thr[i].got : \A n \in DOMAIN thr[j].got :
            (i # j \/ m # n) => thr[i].got[m] # thr[j].got[n]

\* =====================================================================
\* Threads pinning and unpinning: BufferMgr::pin statement by statement,
\* with the Mutex<BufferMgr> and the clock
\* =====================================================================
NPinTx == 2
MAX_TIME == 2
MaxNow == 3

PinThreads == 1..NPinTx

\* A thread between two calls of its transaction.
IdlePin == [pc |-> "idle", op |-> "none", blk |-> NoBlock, val |-> NoVal,
            timestamp |-> 0, idx |-> NoIdx, parkedAt |-> 0, calledAt |-> 0, res |-> "none",
            ret |-> "none", full0 |-> FALSE, pool0 |-> << >>, avail0 |-> 0]

InitPin ==
    /\ StartFrom(AfterNews(FreshStore(NPinTx, NBufs), NPinTx))
    /\ thr = [i \in PinThreads |-> IdlePin]
    /\ now = 0
    /\ mutex = NoThread

\* A loop test that gives up at once.
pin_waits_never(idx, elapsed) == idx = NoIdx /\ elapsed < 0

\* The test of the loop of BufferMgr::pin
pin_waits(idx, elapsed) == idx = NoIdx /\ elapsed < MAX_TIME

\* Every buffer is pinned and none holds blk.
PoolFull(s, blk) ==
    /\ find_existing_buffer(s, blk) = NoIdx
    /\ choose_unpinned_buffer(s) = NoIdx

\* Thread i calls Transaction::pin(blk): BufferList::pin locks the buffer
\* manager, BufferMgr::pin takes its timestamp and runs its first try_pin.
PinEnter(i, blk) ==
    /\ thr[i].pc = "idle" /\ txs[i].status = "active"
    /\ mutex = NoThread
    /\ txs[i].pins[blk] < MaxPins
    /\ PinsOf(blk) < MaxPoolPins
    /\ LET r == try_pin(Cur, blk) IN
        /\ Install(r.st)
        /\ thr' = [thr EXCEPT ![i] = [IdlePin EXCEPT
                        !.pc = "trying", !.op = "pin", !.blk = blk,
                        !.timestamp = now, !.idx = r.idx,
                        !.full0 = PoolFull(Cur, blk),
                        !.pool0 = pool, !.avail0 = available]]
    /\ mutex' = i
    /\ UNCHANGED << now, needRecover, crashes, hist >>

\* The loop test holds: the thread parks, still holding the mutex.
PinPark(i) ==
    /\ thr[i].pc = "trying"
    /\ pin_waits(thr[i].idx, now - thr[i].timestamp)
    /\ thr' = [thr EXCEPT ![i].pc = "parked", ![i].parkedAt = now]
    /\ UNCHANGED << mainvars, logvars, now, mutex >>

\* park_timeout returns (time-out, unpark token or spurious wake-up) and
\* the body of the loop runs try_pin again.
PinWake(i) ==
    /\ thr[i].pc = "parked"
    /\ LET r == try_pin(Cur, thr[i].blk) IN
        /\ Install(r.st)
        /\ thr' = [thr EXCEPT ![i].pc = "trying", ![i].idx = r.idx]
    /\ UNCHANGED << now, mutex, needRecover, crashes, hist >>

\* The loop test fails: BufferMgr::pin returns Ok or Err, BufferList::pin
\* matches on it and releases the mutex, Transaction::pin returns ().
PinReturn(i) ==
    /\ thr[i].pc = "trying"
    /\ ~pin_waits(thr[i].idx, now - thr[i].timestamp)
    /\ Install(BufferList_pin_match(Cur, i, thr[i].blk, thr[i].idx))
    /\ thr' = [thr EXCEPT ![i] =
                    IF thr[i].idx # NoIdx
                    THEN [IdlePin EXCEPT !.op = "pin", !.blk = thr[i].blk,
                                         !.res = "Ok", !.ret = "unit"]
                    ELSE [thr[i] EXCEPT !.pc = "idle", !.res = "Err", !.ret = "unit"]]
    /\ mutex' = NoThread
    /\ UNCHANGED << now, needRecover, crashes, hist >>

\* Thread j calls Transaction::unpin(blk) and reaches bm.lock().
UnpinCall(j, blk) ==
    /\ thr[j].pc = "idle" /\ txs[j].status = "active"
    /\ txs[j].buffers[blk] # NoIdx
    /\ thr' = [thr EXCEPT ![j] = [IdlePin EXCEPT
                    !.pc = "unpinning", !.op = "unpin", !.blk = blk,
                    !.calledAt = now]]
    /\ UNCHANGED << mainvars, logvars, now, mutex >>

\* bm.lock() succeeds and the rest of BufferList::unpin runs.
UnpinRun(j) ==
    /\ thr[j].pc = "unpinning"
    /\ mutex = NoThread
    /\ Install(Transaction_unpin(Cur, j, thr[j].blk))
    /\ thr' = [thr EXCEPT ![j] = [IdlePin EXCEPT
                    !.op = "unpin", !.blk = thr[j].blk, !.ret = "unit"]]
    /\ UNCHANGED << now, mutex, needRecover, crashes, hist >>

\* Thread i calls Transaction::set_int on a block it has pinned: cm.xlock
\* runs under the LOCK_TABLE mutex, whatever the state of the buffer
\* manager's mutex, and the call reaches bm.lock().
PinSetInt(i, blk, val) ==
    /\ thr[i].pc = "idle" /\ txs[i].status = "active"
    /\ txs[i].buffers[blk] # NoIdx
    /\ latest_lsn - NEXT_TXNUM < MaxWrites
    /\ Install(ConcurrencyMgr_xlock(Cur, i, blk))
    /\ thr' = [thr EXCEPT ![i] = [IdlePin EXCEPT !.pc = "xlocked", !.op = "set_int",
                                                  !.blk = blk, !.val = val]]
    /\ UNCHANGED << now, mutex, needRecover, crashes, hist >>

\* bm.lock() succeeds: the old value is logged, the new one written and the
\* buffer marked; the guard drops at the end of the arm and set_int returns.
PinSetIntRun(i) ==
    /\ thr[i].pc = "xlocked" /\ ~lt_stuck
    /\ mutex = NoThread
    /\ Install(set_int_write(Cur, i, thr[i].blk, 0, thr[i].val, TRUE))
    /\ thr' = [thr EXCEPT ![i] = [IdlePin EXCEPT !.op = "set_int", !.blk = thr[i].blk,
                                                  !.ret = "unit"]]
    /\ UNCHANGED << now, mutex, needRecover, crashes, hist >>

\* The clock advances; a parked thread wakes up MAX_TIME after it parked
\* at the latest.
Tick ==
    /\ now < MaxNow
    /\ \A i \in PinThreads : thr[i].pc = "parked" => now - thr[i].parkedAt < MAX_TIME
    /\ now' = now + 1
    /\ UNCHANGED << mainvars, logvars, thr, mutex >>

NextPin ==
    \/ \E i \in PinThreads, blk \in Blocks : PinEnter(i, blk)
    \/ \E i \in PinThreads : PinPark(i)
    \/ \E i \in PinThreads : PinWake(i)
    \/ \E i \in PinThreads : PinReturn(i)
    \/ \E j \in PinThreads, blk \in Blocks : UnpinCall(j, blk)
    \/ \E j \in PinThreads : UnpinRun(j)
    \/ \E i \in PinThreads, blk \in Blocks, val \in Values : PinSetInt(i, blk, val)
    \/ \E i \in PinThreads : PinSetIntRun(i)
    \/ Tick

SpecPin == InitPin /\ [][NextPin]_vars

\* C12: a BufferMgr::pin call that found every buffer pinned and none
\* holding its block returns the timeout error; it returns that error only
\* once MAX_TIME has elapsed, and then every buffer and the available
\* count are what they were before the call, and the caller's transaction
\* has recorded no buffer.
C12_PinTimeoutLeavesPool ==
    [][\A i \in PinThreads :
        (thr[i].pc = "trying" /\ thr'[i].pc = "idle") =>
            /\ thr[i].full0 => thr'[i].res = "Err"
            /\ thr'[i].res = "Err" =>
                /\ now - thr[i].timestamp >= MAX_TIME
                /\ pool' = thr[i].pool0
                /\ available' = thr[i].avail0
                /\ txs' = txs]_vars

\* A pin that parked has timed out on a pool whose buffers were all pinned
\* and modified when it was called, and are as they were.
C12_Witness ==
    \E i \in PinThreads :
        /\ thr[i].pc = "idle" /\ thr[i].op = "pin" /\ thr[i].res = "Err"
        /\ thr[i].timestamp >= 1 /\ thr[i].parkedAt >= thr[i].timestamp
        /\ txs[i].buffers[thr[i].blk] = NoIdx
        /\ pool = thr[i].pool0
        /\ \A k \in DOMAIN pool :
            pool[k].pins > 0 /\ pool[k].txnum # None /\ pool[k].block # thr[i].blk

\* C13: a try_pin of BufferMgr::pin that finds a buffer holding the block
\* yields that buffer's slot, adds exactly one to its pin count, takes one
\* from available only if the buffer was unpinned, leaves every other
\* buffer, the block assignments and the contents alone, and reads and
\* writes neither the data file nor the log file.
C13_PinExisting ==
    [][\A i \in PinThreads :
        (thr[i].pc \in {"idle", "parked"} /\ thr'[i].pc = "trying") =>
            LET e == find_existing_buffer(Cur, thr'[i].blk) IN
            e # NoIdx =>
                /\ thr'[i].idx = e
                /\ pool' = [pool EXCEPT ![e].pins = @ + 1]
                /\ available' = IF pool[e].pins = 0 THEN available - 1 ELSE available
                /\ disk' = disk /\ fileLen' = fileLen /\ diskLsn' = diskLsn
                /\ logdisk' = logdisk /\ last_saved_lsn' = last_saved_lsn]_vars

\* A transaction has just pinned a block held by a buffer that another
\* transaction keeps pinned: the pin count went from one to two.
C13_Witness ==
    \E i \in PinThreads, j \in PinThreads :
        /\ i # j
        /\ thr[i].pc = "trying" /\ thr[i].idx # NoIdx
        /\ thr[i].pool0[thr[i].idx].block = thr[i].blk
        /\ thr[i].pool0[thr[i].idx].pins = 1
        /\ pool[thr[i].idx].pins = 2
        /\ txs[j].buffers[thr[i].blk] = thr[i].idx
        /\ thr[j].op = "pin" /\ thr[j].res = "Ok"

\* C14: within one run of the process, the block of a buffer changes only
\* in a step in which its pin count is zero, and after every step each slot
\* index that a transaction keeps for a block refers to a pinned buffer
\* holding that block.
C14_PinnedKeepsBlock ==
    [][/\ crashes' = crashes =>
            \A k \in BufIdx : pool'[k].block # pool[k].block => pool[k].pins = 0
       /\ \A t \in TxNums, b \in Blocks :
            txs'[t].buffers[b] # NoIdx =>
                /\ pool'[txs'[t].buffers[b]].block = b
                /\ pool'[txs'[t].buffers[b]].pins > 0]_vars

\* The one buffer of the pool, through which another block was written
\* before, has been assigned to a block that a transaction now has pinned.
C14_Witness ==
    \E t \in TxNums, u \in TxNums, b \in Blocks, b2 \in Blocks, o \in Cells :
        /\ b # b2
        /\ hist.wrote[u][b2][o] # NoVal
        /\ txs[t].status = "active"
        /\ txs[t].buffers[b] # NoIdx
        /\ pool[txs[t].buffers[b]].block = b
        /\ pool[txs[t].buffers[b]].pins > 0

\* =====================================================================
\* Threads appending to the data file: Transaction::append statement by
\* statement
\* =====================================================================
NAppTx == 3
MaxAppends == 2

AppThreads == 1..NAppTx
FileBlocks == 0..(NAppTx * MaxAppends - 1)

\* A thread between two calls, with the block numbers its appends returned.
IdleApp == [pc |-> "idle", number |-> NoBlock, got |-> << >>]

\* thr.th: the threads; thr.pos: the offset of the open data file, in blocks.
\* open_file hands every call a try_clone of one File, and the clones share
\* the offset that seek sets and write advances.
InitAppend ==
    /\ StartFrom([AfterNews(FreshStore(NAppTx, NBufs), NAppTx) EXCEPT
                    !.disk = [b \in FileBlocks |-> ZeroPage],
                    !.diskLsn = [b \in FileBlocks |-> 0]])
    /\ thr = [th |-> [i \in AppThreads |-> IdleApp], pos |-> 0]
    /\ now = 0
    /\ mutex = NoThread

\* Thread i calls Transaction::append: cm.slock on the sentinel block.
AppendLock(i) ==
    /\ thr.th[i].pc = "idle"
    /\ Len(thr.th[i].got) < MaxAppends
    /\ ~Transaction_lock_end(Cur, i).lt_stuck
    /\ Install(Transaction_lock_end(Cur, i))
    /\ thr' = [thr EXCEPT !.th[i].pc = "locked"]
    /\ UNCHANGED << now, mutex, needRecover, crashes, hist >>

\* FileMgr::append computes number = self.length(filename).
AppendLength(i) ==
    /\ thr.th[i].pc = "locked"
    /\ thr' = [thr EXCEPT !.th[i].pc = "measured", !.th[i].number = length(Cur)]
    /\ UNCHANGED << mainvars, logvars, now, mutex >>

\* FileMgr::append: file.seek(number * block_size) sets the shared offset.
AppendSeek(i) ==
    /\ thr.th[i].pc = "measured"
    /\ thr' = [thr EXCEPT !.th[i].pc = "sought", !.pos = thr.th[i].number]
    /\ UNCHANGED << mainvars, logvars, now, mutex >>

\* FileMgr::append: file.write(buffer) puts the zero block at the shared
\* offset, wherever the last seek of any thread left it, and moves the
\* offset past the block; the call returns the block id of number.
AppendWrite(i) ==
    /\ thr.th[i].pc = "sought"
    /\ Install(append_write(Cur, thr.pos))
    /\ thr' = [thr EXCEPT !.th[i].pc = "idle",
                          !.th[i].got = Append(@, thr.th[i].number),
                          !.pos = @ + 1]
    /\ UNCHANGED << now, mutex, needRecover, crashes, hist >>

NextAppend ==
    \E i \in AppThreads :
        AppendLock(i) \/ AppendLength(i) \/ AppendSeek(i) \/ AppendWrite(i)

SpecAppend == InitAppend /\ [][NextAppend]_vars

\* The append calls that have returned: thread and position in its list.
Returned == UNION {{<< i, m >> : m \in DOMAIN thr.th[i].got} : i \in AppThreads}

\* C15: the appends of different transactions return different block
\* numbers, and once no append is under way the file has grown by one
\* block for every append that returned.
C15_AppendsSerialized ==
    /\ \A x \in Returned, y \in Returned :
        x # y => thr.th[x[1]].got[x[2]] # thr.th[y[1]].got[y[2]]
    /\ (\A i \in AppThreads : thr.th[i].pc = "idle") => fileLen = Cardinality(Returned)

\* =====================================================================
\* Threads calling the lock table: LockTable::slock and LockTable::xlock
\* statement by statement, under the LOCK_TABLE mutex, with the clock
\* =====================================================================
NLockThreads == 2

LockThreads == 1..NLockThreads

\* A thread between two calls, with the locks it was granted.
IdleLock == [pc |-> "idle", op |-> "none", blk |-> NoBlock, start |-> 0,
             elapsed |-> 0, parkedAt |-> 0, res |-> "none",
             held |-> [b \in Blocks |-> "none"]]

InitLock ==
    /\ StartFrom(FreshStore(NLockThreads, NBufs))
    /\ thr = [i \in LockThreads |-> IdleLock]
    /\ now = 0
    /\ mutex = NoThread

\* The condition a call waits on: has_xlock for slock, has_other_slocks for xlock.
Blocked(op, lk, blk) ==
    IF op = "slock" THEN LockTable_has_xlock(lk, blk)
    ELSE LockTable_has_other_slocks(lk, blk)

\* The test of the loop of slock and xlock, on the elapsed time read before the loop.
lock_waits(op, lk, blk, elapsed) == Blocked(op, lk, blk) /\ elapsed < MAX_TIME

\* Thread i locks the table and calls slock or xlock: start = now().  A
\* thread asks for a shared lock on a block it holds no lock on, and for an
\* exclusive lock on a block it holds a shared lock on.
LockEnter(i, op, blk) ==
    /\ thr[i].pc = "idle"
    /\ mutex = NoThread
    /\ thr[i].held[blk] = (IF op = "slock" THEN "none" ELSE "S")
    /\ thr' = [thr EXCEPT ![i].pc = "started", ![i].op = op, ![i].blk = blk,
                          ![i].start = now, ![i].res = "none"]
    /\ mutex' = i
    /\ UNCHANGED << mainvars, logvars, now >>

\* elapsed = start.elapsed(), read once.
LockMeasure(i) ==
    /\ thr[i].pc = "started"
    /\ thr' = [thr EXCEPT ![i].pc = "loop", ![i].elapsed = now - thr[i].start]
    /\ UNCHANGED << mainvars, logvars, now, mutex >>

\* The loop test holds: park_timeout.
LockPark(i) ==
    /\ thr[i].pc = "loop"
    /\ lock_waits(thr[i].op, locks, thr[i].blk, thr[i].elapsed)
    /\ thr' = [thr EXCEPT ![i].pc = "parked", ![i].parkedAt = now]
    /\ UNCHANGED << mainvars, logvars, now, mutex >>

\* park_timeout returns: back to the loop test.
LockWake(i) ==
    /\ thr[i].pc = "parked"
    /\ thr' = [thr EXCEPT ![i].pc = "loop"]
    /\ UNCHANGED << mainvars, logvars, now, mutex >>

\* The loop test fails: Err if the block is still locked against the
\* request, else the lock is entered in the table; the mutex is released.
LockReturn(i) ==
    /\ thr[i].pc = "loop"
    /\ ~lock_waits(thr[i].op, locks, thr[i].blk, thr[i].elapsed)
    /\ IF Blocked(thr[i].op, locks, thr[i].blk)
       THEN /\ thr' = [thr EXCEPT ![i].pc = "idle", ![i].res = "Err"]
            /\ UNCHANGED mainvars
       ELSE /\ Install(IF thr[i].op = "slock"
                       THEN LockTable_slock(Cur, thr[i].blk)
                       ELSE LockTable_xlock(Cur, thr[i].blk))
            /\ thr' = [thr EXCEPT ![i].pc = "idle", ![i].res = "Ok",
                            ![i].held[thr[i].blk] =
                                IF thr[i].op = "slock" THEN "S" ELSE "X"]
            /\ UNCHANGED << needRecover, crashes, hist >>
    /\ mutex' = NoThread
    /\ UNCHANGED << logvars, now >>

\* Thread i locks the table and unlocks a block it holds a lock on.
LockUnlock(i, blk) ==
    /\ thr[i].pc = "idle"
    /\ mutex = NoThread
    /\ thr[i].held[blk] # "none"
    /\ Install(LockTable_unlock(Cur, blk))
    /\ thr' = [thr EXCEPT ![i].op = "unlock", ![i].blk = blk, ![i].res = "none",
                          ![i].held[blk] = "none"]
    /\ UNCHANGED << now, mutex, needRecover, crashes, hist >>

\* The clock advances; a parked thread wakes up MAX_TIME after it parked
\* at the latest.
LockTick ==
    /\ now < MaxNow
    /\ \A i \in LockThreads : thr[i].pc = "parked" => now - thr[i].parkedAt < MAX_TIME
    /\ now' = now + 1
    /\ UNCHANGED << mainvars, logvars, thr, mutex >>

NextLock ==
    \/ \E i \in LockThreads, op \in {"slock", "xlock"}, blk \in Blocks : LockEnter(i, op, blk)
    \/ \E i \in LockThreads : LockMeasure(i)
    \/ \E i \in LockThreads : LockPark(i)
    \/ \E i \in LockThreads : LockWake(i)
    \/ \E i \in LockThreads : LockReturn(i)
    \/ \E i \in LockThreads, blk \in Blocks : LockUnlock(i, blk)
    \/ LockTick

SpecLock == InitLock /\ [][NextLock]_vars

\* C16: a call of slock or xlock does not go on waiting once MAX_TIME has
\* elapsed since it started: it never parks again at or after that time.
C16_LockWaitEnds ==
    \A i \in LockThreads :
        thr[i].pc = "parked" => thr[i].parkedAt - thr[i].start < MAX_TIME

\* =====================================================================
\* test_concurrency: transactions A, B and C on three threads, a pool of
\* three buffers, every call of a transaction one step
\* =====================================================================
TestBufs == 3
TestTxs == 3

TxA == 1
TxB == 2
TxC == 3
ConcThreads == 1..TestTxs

Call(op, blk) == [op |-> op, blk |-> blk]

\* The calls of each thread, in program order.
Script(i) ==
    IF i = TxA THEN << Call("pin", 0), Call("pin", 1), Call("get_int", 0),
                       Call("get_int", 1), Call("commit", NoBlock) >>
    ELSE IF i = TxB THEN << Call("pin", 0), Call("pin", 1), Call("set_int", 1),
                            Call("get_int", 0), Call("commit", NoBlock) >>
    ELSE << Call("pin", 0), Call("pin", 1), Call("set_int", 0),
            Call("get_int", 1), Call("commit", NoBlock) >>

\* BufferList::pins of transaction i at its commit: the blocks of its pin
\* calls, in call order (no pin of the test fails and none is undone).
PinsVec(i) ==
    LET S == SelectSeq(Script(i), LAMBDA c : c.op = "pin")
    IN [k \in 1..Len(S) |-> S[k].blk]

\* thr.pc[i]: the calls of its script that thread i has completed;
\* thr.at[i]: where thread i is inside its next call, between two sections
\* each of which runs under one mutex;
\* thr.lsn[i]: the LSN that CommitRecord::write_to_log returned to commit;
\* thr.left[i]: the keys that the loop of ConcurrencyMgr::release has not
\* visited yet; thr.k[i]: the pins that the loop of unpin_all has visited;
\* thr.ord: the lock requests made so far came in the order of the test.
InitConc ==
    /\ StartFrom(AfterNews(FreshStore(TestTxs, TestBufs), TestTxs))
    /\ thr = [pc |-> [i \in ConcThreads |-> 0],
              at |-> [i \in ConcThreads |-> "call"],
              lsn |-> [i \in ConcThreads |-> NoLsn],
              left |-> [i \in ConcThreads |-> {}],
              k |-> [i \in ConcThreads |-> 0],
              ord |-> TRUE]
    /\ now = 0
    /\ mutex = NoThread

\* The next call of thread i.
NextCall(i) == Script(i)[thr.pc[i] + 1]

\* The lock requests (get_int and set_int calls) thread i has made.
Reqs(i) ==
    Len(SelectSeq(SubSeq(Script(i), 1, thr.pc[i]),
                  LAMBDA c : c.op \in {"get_int", "set_int"}))
    + (IF thr.at[i] = "locked" THEN 1 ELSE 0)

\* The order the sleeps of the test aim at: A on block 0 and B on block 1,
\* then C on block 0, then A on block 1 and B on block 0, then C on block 1.
\* The next request of thread i comes in that order.
TestOrder(i) ==
    IF i = TxC THEN Reqs(TxA) > Reqs(TxC) /\ Reqs(TxB) > Reqs(TxC)
    ELSE Reqs(TxC) >= Reqs(i)

\* The next section of thread i takes the LOCK_TABLE mutex.
AtLockTable(i) ==
    \/ thr.at[i] = "call" /\ NextCall(i).op \in {"get_int", "set_int"}
    \/ thr.at[i] = "saved" /\ thr.left[i] # {}

\* The state after the next section of the next call of transaction t; blk
\* is the key that the loop of release visits next.
\*   pin: BufferList::pin, under the buffer manager's mutex;
\*   get_int, set_int: cm.slock or cm.xlock under the LOCK_TABLE mutex
\*     ("locked"), then the buffer under the buffer manager's mutex;
\*   commit: flush_all under the buffer manager's mutex ("flushed"), the
\*     Commit record under the log manager's mutex ("appended"),
\*     flush_record under the log manager's mutex ("saved"), one unlock
\*     under the LOCK_TABLE mutex for every key and locks.clear()
\*     ("released"), one unpin under the buffer manager's mutex for every
\*     pin, and the two clear() of unpin_all.
RunCall(s, t, blk) ==
    LET c == NextCall(t)
        a == thr.at[t]
    IN
    IF a = "call" /\ c.op = "pin" THEN Transaction_pin(s, t, c.blk)
    ELSE IF a = "call" /\ c.op = "get_int" THEN ConcurrencyMgr_slock(s, t, c.blk)
    ELSE IF a = "call" /\ c.op = "set_int" THEN ConcurrencyMgr_xlock(s, t, c.blk)
    ELSE IF a = "locked" /\ c.op = "get_int" THEN s
    ELSE IF a = "locked" THEN set_int_write(s, t, c.blk, 0, 0, FALSE)
    ELSE IF a = "call" THEN BufferMgr_flush_all(s, t)
    ELSE IF a = "flushed" THEN LogMgr_append(s, CommitRecord(t))
    ELSE IF a = "appended" THEN LogMgr_flush_record(s, thr.lsn[t])
    ELSE IF a = "saved" /\ thr.left[t] # {} THEN LockTable_unlock(s, blk)
    ELSE IF a = "saved" THEN [s EXCEPT !.txs[t].locks = NoLocks]
    ELSE IF thr.k[t] < Len(PinsVec(t))
         THEN LET idx == BufferList_buffer(s, t, PinsVec(t)[thr.k[t] + 1])
              IN IF idx # NoIdx THEN BufferMgr_unpin(s, idx) ELSE s
    ELSE [s EXCEPT !.txs[t].buffers = NoBuffers, !.txs[t].pins = NoPins,
                   !.txs[t].status = "committed"]

\* Thread i can run its next section: a section that needs the lock table
\* waits while a call stuck in LockTable::slock or xlock holds the
\* LOCK_TABLE mutex.
Ready(i) ==
    /\ thr.pc[i] < Len(Script(i))
    /\ AtLockTable(i) => ~lt_stuck

\* The keys that the loop of release can visit next (the order of the keys
\* of a HashMap is arbitrary); NoBlock outside the loop.
NextKeys(i) ==
    IF thr.at[i] = "saved" /\ thr.left[i] # {} THEN thr.left[i] ELSE {NoBlock}

\* thr after thread i has run its next section: a call that gets stuck in
\* the lock table never returns.
ThrAfter(i, stuck, blk) ==
    LET c == NextCall(i)
        a == thr.at[i]
        done == [thr EXCEPT !.pc[i] = @ + 1, !.at[i] = "call", !.k[i] = 0]
    IN
    IF a = "call" /\ c.op = "pin" THEN done
    ELSE IF a = "call" /\ c.op \in {"get_int", "set_int"}
         THEN [thr EXCEPT !.at[i] = IF stuck THEN @ ELSE "locked",
                          !.ord = @ /\ TestOrder(i)]
    ELSE IF a = "locked" THEN done
    ELSE IF a = "call" THEN [thr EXCEPT !.at[i] = "flushed"]
    ELSE IF a = "flushed"
         THEN [thr EXCEPT !.at[i] = "appended", !.lsn[i] = latest_lsn + 1]
    ELSE IF a = "appended"
         THEN [thr EXCEPT !.at[i] = "saved", !.lsn[i] = NoLsn,
                          !.left[i] = {b \in LockKeys : txs[i].locks[b] # "none"}]
    ELSE IF a = "saved" /\ thr.left[i] # {} THEN [thr EXCEPT !.left[i] = @ \ {blk}]
    ELSE IF a = "saved" THEN [thr EXCEPT !.at[i] = "released"]
    ELSE IF thr.k[i] < Len(PinsVec(i)) THEN [thr EXCEPT !.k[i] = @ + 1]
    ELSE done

\* Thread i runs the next section of its next call.
ConcStep(i) ==
    /\ Ready(i)
    /\ \E blk \in NextKeys(i) :
       \E s \in {RunCall(Cur, i, blk)} :
          /\ Install(s)
          /\ thr' = ThrAfter(i, s.lt_stuck, blk)
    /\ UNCHANGED << now, mutex, needRecover, crashes, hist >>

\* What a step of thread i does to thr, and when it can be made: the
\* steps ConcStep(i) are those that change thr in this way.
ConcMove(i) ==
    /\ Ready(i)
    /\ thr' \in {ThrAfter(i, st, blk) : st \in BOOLEAN, blk \in NextKeys(i)}

NextConc == \E i \in ConcThreads : ConcStep(i)

\* Every thread that can run its next section eventually runs it: the
\* threads of the test are scheduled by the operating system.
SpecConc ==
    /\ InitConc
    /\ [][NextConc]_vars
    /\ \A i \in ConcThreads : WF_thr(ConcMove(i))

AllCommitted == \A i \in ConcThreads : txs[i].status = "committed"

\* C17: in every run of test_concurrency the three transactions
\* eventually commit: no call waits forever.
C17_AllCommit == <>AllCommitted

\* The three have committed after the lock requests were made in the order
\* of the test: A on block 0 and B on block 1, then C on block 0, then A on
\* block 1 and B on block 0, then C on block 1.
C17_Witness ==
    /\ AllCommitted
    /\ thr.ord

\* Transaction j has called unpin, before MAX_TIME had elapsed in the
\* pin call of transaction i, on a block whose buffer it alone has pinned.
UnpinDuringWait(i, j) ==
    /\ i # j
    /\ thr[i].op = "pin" /\ thr[i].idx = NoIdx
    /\ thr[j].pc = "unpinning"
    /\ thr[j].calledAt >= thr[i].timestamp
    /\ thr[j].calledAt - thr[i].timestamp < MAX_TIME
    /\ txs[j].buffers[thr[j].blk] # NoIdx
    /\ pool[txs[j].buffers[thr[j].blk]].pins = 1

\* C18: when a transaction unpins a buffer while another waits in pin, and
\* MAX_TIME has not elapsed, the unpin can proceed during the wait, and the
\* waiting pin does not end in the timeout.
C18_UnpinServesWaiter ==
    \A i \in PinThreads, j \in PinThreads :
        UnpinDuringWait(i, j) =>
            /\ thr[i].pc \in {"trying", "parked"} => ENABLED UnpinRun(j)
            /\ ~(thr[i].pc = "idle" /\ thr[i].res = "Err")

\* C19: a Transaction::pin call that has returned normally (it returns the
\* unit value and has no other way to report) has the block pinned: the
\* transaction holds a buffer for it.
C19_PinFailureReported ==
    \A i \in PinThreads :
        (thr[i].pc = "idle" /\ thr[i].op = "pin" /\ thr[i].ret = "unit") =>
            txs[i].buffers[thr[i].blk] # NoIdx

\* =====================================================================
\* One run of the process in which a transaction may call recover() while
\* others are active
\* =====================================================================
\* Transaction t calls recover() in the running process.
RecoverLive(t) ==
    /\ Running /\ Active(t)
    /\ Install(Transaction_recover(Cur, t))
    /\ UNCHANGED thrvars
    /\ UNCHANGED << needRecover, crashes, hist >>

NextInProc ==
    \/ New
    \/ \E t \in TxNums, blk \in Blocks : Pin(t, blk)
    \/ \E t \in TxNums, blk \in Blocks, offset \in Cells, val \in Values :
          SetInt(t, blk, offset, val, TRUE)
    \/ \E t \in TxNums : Commit(t)
    \/ \E t \in TxNums : Rollback(t)
    \/ \E t \in TxNums : RecoverLive(t)

SpecInProc == Init /\ [][NextInProc]_vars

\* rollback() of t was called in this step: it returned or it panicked.
RollbackCalled(t) ==
    txs[t].status = "active" /\ txs'[t].status \in {"rolledback", "panicked"}

\* C20: every rollback() of an active transaction returns, and the newest
\* record of the log file is then its Rollback record.
C20_RollbackCompletes ==
    [][\A t \in TxNums : RollbackCalled(t) =>
          /\ txs'[t].status = "rolledback"
          /\ logdisk'[current_block' + 1] = logpage'
          /\ logpage' # << >>
          /\ logpage'[Len(logpage')] = RollbackRecord(t)]_vars

\* =====================================================================
\* Transactions pinning, unpinning, writing and reading, with the count of
\* the pins each one has made and not yet undone
\* =====================================================================
MaxHeld == 2

\* thr.held[t][b]: successful pin calls of t on b minus its unpin calls
\* (history); thr.last: the get_int call that has just returned, with its
\* result, NoCall after any other call.
NoCall == [op |-> "none", t |-> NoTx, blk |-> NoBlock, offset |-> 0, res |-> NoVal]

InitGet ==
    /\ StartFrom(AfterNews(FreshStore(MaxTx, NBufs), MaxTx))
    /\ thr = [held |-> [t \in TxNums |-> [b \in Blocks |-> 0]], last |-> NoCall]
    /\ now = 0
    /\ mutex = NoThread

\* Transaction::pin; the pin counts if BufferMgr::pin gave a buffer.
GetPin(t, blk) ==
    /\ thr.held[t][blk] < MaxHeld
    /\ PinsOf(blk) < MaxPoolPins
    /\ Install(Transaction_pin(Cur, t, blk))
    /\ thr' = [held |-> IF BufferMgr_pin(Cur, blk).idx # NoIdx
                        THEN [thr.held EXCEPT ![t][blk] = @ + 1]
                        ELSE thr.held,
               last |-> NoCall]
    /\ UNCHANGED << now, mutex, needRecover, crashes, hist >>

\* Transaction::unpin of a block t has pinned
GetUnpin(t, blk) ==
    /\ thr.held[t][blk] > 0
    /\ Install(Transaction_unpin(Cur, t, blk))
    /\ thr' = [held |-> [thr.held EXCEPT ![t][blk] = @ - 1],
               last |-> NoCall]
    /\ UNCHANGED << now, mutex, needRecover, crashes, hist >>

\* Transaction::set_int, not logged
GetSetInt(t, blk, offset, val) ==
    /\ Install(Transaction_set_int(Cur, t, blk, offset, val, FALSE))
    /\ thr' = [thr EXCEPT !.last = NoCall]
    /\ UNCHANGED << now, mutex, needRecover, crashes, hist >>

\* Transaction::get_int, with its result
GetGetInt(t, blk, offset) ==
    /\ Install(Transaction_get_int(Cur, t, blk))
    /\ thr' = [thr EXCEPT !.last = [op |-> "get_int", t |-> t, blk |-> blk,
                                    offset |-> offset,
                                    res |-> get_int_result(Cur, t, blk, offset)]]
    /\ UNCHANGED << now, mutex, needRecover, crashes, hist >>

NextGet ==
    \/ \E t \in TxNums, blk \in Blocks : GetPin(t, blk)
    \/ \E t \in TxNums, blk \in Blocks : GetUnpin(t, blk)
    \/ \E t \in TxNums, blk \in Blocks, offset \in Cells, val \in Values :
          GetSetInt(t, blk, offset, val)
    \/ \E t \in TxNums, blk \in Blocks, offset \in Cells : GetGetInt(t, blk, offset)

SpecGet == InitGet /\ [][NextGet]_vars

\* C21: a get_int that has just returned gave None exactly if its
\* transaction holds no pin on the block, and otherwise the value at the
\* offset in the buffer holding the block.
C21_GetIntNoneIffUnpinned ==
    thr.last.op = "get_int" =>
        LET t == thr.last.t
            blk == thr.last.blk
            i == find_existing_buffer(Cur, blk)
        IN /\ thr.last.res = NoVal <=> thr.held[t][blk] = 0
           /\ thr.last.res # NoVal =>
                i # NoIdx /\ thr.last.res = pool[i].contents[thr.last.offset]

\* =====================================================================
\* The codec of the log records: write_to_log of each kind, create_log_record
\* =====================================================================
OpSetString == 5

\* The values the codec is applied to: file names and old string values as
\* sequences of bytes, integers of one and of two bytes.
CodecNames == {<< 116 >>, << 116, 49 >>}
CodecStrings == {<< >>, << 97 >>, << 97, 98 >>}
CodecInts == {0, 1, 258}

\* A log record as the value its Display prints: the kind and the fields.
Record(op, txnum, filename, blknum, offset, val) ==
    [op |-> op, txnum |-> txnum, filename |-> filename, blknum |-> blknum,
     offset |-> offset, val |-> val]

\* None of Option<Box<dyn LogRecord>>
NoRecord == Record(NoVal, NoTx, << >>, NoBlock, 0, NoVal)

\* CheckpointRecord::write_to_log: the bytes handed to LogMgr::append
CheckpointRecord_write_to_log == Page_set_int(Page_new(4), 0, OpCheckpoint)

\* StartRecord::write_to_log
StartRecord_write_to_log(txnum) ==
    Page_set_int(Page_set_int(Page_new(8), 0, OpStart), 4, txnum)

\* CommitRecord::write_to_log
CommitRecord_write_to_log(txnum) ==
    Page_set_int(Page_set_int(Page_new(8), 0, OpCommit), 4, txnum)

\* RollbackRecord::write_to_log
RollbackRecord_write_to_log(txnum) ==
    Page_set_int(Page_set_int(Page_new(8), 0, OpRollback), 4, txnum)

\* SetIntRecord::write_to_log
SetIntRecord_write_to_log(txnum, filename, blknum, offset, val) ==
    LET tpos == 4
        filepos == tpos + 4
        blkpos == filepos + max_length(Len(filename))
        offsetpos == blkpos + 4
        valpos == offsetpos + 4
        reclen == valpos + 4
        p1 == Page_set_int(Page_new(reclen), 0, OpSetInt)
        p2 == Page_set_int(p1, tpos, txnum)
        p3 == Page_set_bytes(p2, filepos, filename)
        p4 == Page_set_int(p3, blkpos, blknum)
        p5 == Page_set_int(p4, offsetpos, offset)
    IN Page_set_int(p5, valpos, val)

\* SetStringRecord::write_to_log
SetStringRecord_write_to_log(txnum, filename, blknum, offset, val) ==
    LET tpos == 4
        filepos == tpos + 4
        blkpos == filepos + max_length(Len(filename))
        offsetpos == blkpos + 4
        valpos == offsetpos + 4
        reclen == valpos + max_length(Len(val))
        p1 == Page_set_int(Page_new(reclen), 0, OpSetString)
        p2 == Page_set_int(p1, tpos, txnum)
        p3 == Page_set_bytes(p2, filepos, filename)
        p4 == Page_set_int(p3, blkpos, blknum)
        p5 == Page_set_int(p4, offsetpos, offset)
    IN Page_set_bytes(p5, valpos, val)

\* write_to_log of the kind of record r
write_to_log(r) ==
    CASE r.op = OpCheckpoint -> CheckpointRecord_write_to_log
      [] r.op = OpStart -> StartRecord_write_to_log(r.txnum)
      [] r.op = OpCommit -> CommitRecord_write_to_log(r.txnum)
      [] r.op = OpRollback -> RollbackRecord_write_to_log(r.txnum)
      [] r.op = OpSetInt ->
            SetIntRecord_write_to_log(r.txnum, r.filename, r.blknum, r.offset, r.val)
      [] OTHER ->
            SetStringRecord_write_to_log(r.txnum, r.filename, r.blknum, r.offset, r.val)

\* StartRecord::new, CommitRecord::new, RollbackRecord::new: the txnum at 4
TxRecord_new(op, page) == Record(op, Page_get_int(page, 4), << >>, NoBlock, 0, NoVal)

\* SetIntRecord::new
SetIntRecord_new(page) ==
    LET filename == Page_get_bytes(page, 8).val
        blkpos == 8 + max_length(Len(filename))
        offsetpos == blkpos + 4
        valpos == offsetpos + 4
    IN Record(OpSetInt, Page_get_int(page, 4), filename, Page_get_int(page, blkpos),
              Page_get_int(page, offsetpos), Page_get_int(page, valpos))

\* create_log_record: the opcode at 0 selects the kind; there is an arm for
\* Checkpoint, Start, Commit, Rollback and SetInt, and None for the rest.
create_log_record(bytes) ==
    LET op == Page_get_int(bytes, 0) IN
    CASE op = OpCheckpoint -> Record(OpCheckpoint, NoTx, << >>, NoBlock, 0, NoVal)
      [] op = OpStart -> TxRecord_new(OpStart, bytes)
      [] op = OpCommit -> TxRecord_new(OpCommit, bytes)
      [] op = OpRollback -> TxRecord_new(OpRollback, bytes)
      [] op = OpSetInt -> SetIntRecord_new(bytes)
      [] OTHER -> NoRecord

\* The records of the six kinds over the values above.
CodecRecords ==
    {Record(OpCheckpoint, NoTx, << >>, NoBlock, 0, NoVal)}
    \cup {Record(op, t, << >>, NoBlock, 0, NoVal) :
            op \in {OpStart, OpCommit, OpRollback}, t \in TxNums}
    \cup {Record(OpSetInt, t, f, b, o, v) :
            t \in TxNums, f \in CodecNames, b \in Blocks, o \in CodecInts, v \in CodecInts}
    \cup {Record(OpSetString, t, f, b, o, v) :
            t \in TxNums, f \in CodecNames, b \in Blocks, o \in CodecInts, v \in CodecStrings}

\* A record is chosen, written, and what was written is decoded.
InitCodec ==
    /\ StartFrom(FreshStore(MaxTx, NBufs))
    /\ thr \in {[pc |-> "chosen", rec |-> r, bytes |-> << >>, out |-> NoRecord] :
                    r \in CodecRecords}
    /\ now = 0
    /\ mutex = NoThread

CodecWrite ==
    /\ thr.pc = "chosen"
    /\ thr' = [thr EXCEPT !.pc = "written", !.bytes = write_to_log(thr.rec)]
    /\ UNCHANGED << mainvars, logvars, now, mutex >>

CodecRead ==
    /\ thr.pc = "written"
    /\ thr' = [thr EXCEPT !.pc = "decoded", !.out = create_log_record(thr.bytes)]
    /\ UNCHANGED << mainvars, logvars, now, mutex >>

NextCodec == CodecWrite \/ CodecRead

SpecCodec == InitCodec /\ [][NextCodec]_vars

\* C22: the bytes written by write_to_log of each of the six kinds decode
\* through create_log_record to a record of the same kind with the same
\* txnum, block, offset and old value, so None is never the result for an
\* opcode in 0..5.
C22_CodecRoundTrip == thr.pc = "decoded" => thr.out = thr.rec

\* =====================================================================
\* Page: byte strings and strings written at an offset and read back
\* =====================================================================
\* Page::set_string: the bytes of the string go through set_bytes.
Page_set_string(p, offset, value) == Page_set_bytes(p, offset, value)

\* Page::get_string: the bytes of get_bytes, which are ASCII in this model,
\* so that from_utf8 succeeds and gives the string of those bytes.
Page_get_string(p, offset) == Page_get_bytes(p, offset)

\* The pages, offsets and values the two pairs are applied to.  A page is
\* LogBlockSize bytes, all zero or all 255 before the write; the value has a
\* length below, at and above 256 and fits in the page at each offset.
ByteOffsets == {0, 4, 8}
ByteLens == {0, 1, U8 - 1, U8, BigLen}
ByteFills == {0, U8 - 1}
ByteChars == {97, 98}
ByteInputs ==
    {[pc |-> "chosen", kind |-> k, page |-> [i \in 1..LogBlockSize |-> f],
      offset |-> o, value |-> [i \in 1..n |-> c], out |-> << >>] :
        k \in {"bytes", "string"}, f \in ByteFills, o \in ByteOffsets,
        n \in ByteLens, c \in ByteChars}

InitBytes ==
    /\ StartFrom(FreshStore(MaxTx, NBufs))
    /\ thr \in ByteInputs
    /\ now = 0
    /\ mutex = NoThread

\* set_bytes(o, v) or set_string(o, v)
BytesSet ==
    /\ thr.pc = "chosen"
    /\ thr.offset + 4 + Len(thr.value) <= Len(thr.page)
    /\ thr' = [thr EXCEPT !.pc = "set",
                          !.page = IF thr.kind = "bytes"
                                   THEN Page_set_bytes(thr.page, thr.offset, thr.value)
                                   ELSE Page_set_string(thr.page, thr.offset, thr.value)]
    /\ UNCHANGED << mainvars, logvars, now, mutex >>

\* get_bytes(o) or get_string(o) on the page just written
BytesGet ==
    /\ thr.pc = "set"
    /\ thr' = [thr EXCEPT !.pc = "got",
                          !.out = IF thr.kind = "bytes"
                                  THEN Page_get_bytes(thr.page, thr.offset).val
                                  ELSE Page_get_string(thr.page, thr.offset).val]
    /\ UNCHANGED << mainvars, logvars, now, mutex >>

NextBytes == BytesSet \/ BytesGet

SpecBytes == InitBytes /\ [][NextBytes]_vars

\* C23: set_bytes(o, v) followed by get_bytes(o) returns v, and set_string
\* followed by get_string likewise, for every length of v that fits in the
\* page, lengths of 256 and more included, whatever the page held before.
C23_BytesRoundTrip == thr.pc = "got" => thr.out = thr.value

\* =====================================================================
\* FileMgr: write, read and length of one file
\* =====================================================================
MaxFileBlock == 2
FilePageLen == 2

FileBlockNums == 0..MaxFileBlock
FilePages == {Page_new(FilePageLen), Page_set_byte(Page_new(FilePageLen), 0, U8 - 1)}

\* No write, no read, no length call yet.
NoWrite == [n |-> NoBlock, p |-> << >>, before |-> 0]

\* The file is empty; q is the caller's page of the last read, rn its block
\* number, len the result of the last length call, w the last write.
InitFile ==
    /\ StartFrom(FreshStore(MaxTx, NBufs))
    /\ thr = [file |-> << >>, w |-> NoWrite, q |-> Page_new(FilePageLen),
              rn |-> NoBlock, len |-> NoVal]
    /\ now = 0
    /\ mutex = NoThread

\* fm.write(block n, p)
FileWrite(n, p) ==
    /\ thr' = [file |-> FileMgr_write_block(thr.file, n, p),
               w |-> [n |-> n, p |-> p, before |-> FileMgr_length(thr.file)],
               q |-> thr.q, rn |-> NoBlock, len |-> NoVal]
    /\ UNCHANGED << mainvars, logvars, now, mutex >>

\* fm.read(block n, q) into a page q that held q0
FileRead(n, q0) ==
    /\ thr' = [thr EXCEPT !.q = FileMgr_read_block(thr.file, n, q0), !.rn = n]
    /\ UNCHANGED << mainvars, logvars, now, mutex >>

\* fm.length(filename)
FileLength ==
    /\ thr' = [thr EXCEPT !.len = FileMgr_length(thr.file)]
    /\ UNCHANGED << mainvars, logvars, now, mutex >>

NextFile ==
    \/ \E n \in FileBlockNums, p \in FilePages : FileWrite(n, p)
    \/ \E n \in FileBlockNums, q0 \in FilePages : FileRead(n, q0)
    \/ FileLength

SpecFile == InitFile /\ [][NextFile]_vars

\* C24: after write(block n, p), a read of block n makes the caller's page
\* equal to p byte for byte, and length is at least n + 1; writing block 2 of
\* an empty file gives length 3.
C24_FileRoundTrip ==
    thr.w.n # NoBlock =>
        /\ thr.rn = thr.w.n => thr.q = thr.w.p
        /\ thr.len # NoVal => thr.len >= thr.w.n + 1
        /\ (thr.len # NoVal /\ thr.w.before = 0) => thr.len = thr.w.n + 1

\* Block 2 of the empty file was written with a page that is not zero, then
\* read into a page of zeros, and length was called and returned 3.
C24_Witness ==
    /\ thr.w = [n |-> MaxFileBlock, p |-> Page_set_byte(Page_new(FilePageLen), 0, U8 - 1),
                before |-> 0]
    /\ thr.rn = MaxFileBlock
    /\ thr.q = thr.w.p
    /\ thr.len = MaxFileBlock + 1

\* =====================================================================
\* Schema and Layout
\* =====================================================================
INTEGER == 4
VARCHAR == 12
MaxFields == 3
TestVarcharLen == 9

\* Names are byte strings: "A", "B", "C".
FieldA == << 65 >>
FieldB == << 66 >>
FieldC == << 67 >>

\* Schema::new
Schema_new == [fields |-> << >>, info |-> EmptyMap]

\* Schema::add_field
Schema_add_field(sch, field, ftype, flen) ==
    [fields |-> Append(sch.fields, field),
     info |-> MapPut(sch.info, field, [ftype |-> ftype, length |-> flen])]

\* Schema::add_int_field
Schema_add_int_field(sch, field) == Schema_add_field(sch, field, INTEGER, 0)

\* Schema::add_string_field
Schema_add_string_field(sch, field, flen) == Schema_add_field(sch, field, VARCHAR, flen)

\* Schema::ftype, Schema::length
Schema_ftype(sch, field) == sch.info[field].ftype
Schema_length(sch, field) == sch.info[field].length

\* Layout::new, the bytes one field takes: 4 for INTEGER, max_length(length)
\* for VARCHAR (any other type panics; the schemas here have none).
length_in_bytes(sch, field) ==
    IF Schema_ftype(sch, field) = INTEGER THEN 4
    ELSE max_length(Schema_length(sch, field))

\* Layout::new, the loop over schema.fields() from field number k on, with
\* the offsets and the position so far.
RECURSIVE layout_loop(_, _, _, _)
layout_loop(sch, k, offsets, pos) ==
    IF k > Len(sch.fields) THEN [schema |-> sch, offsets |-> offsets, slot_size |-> pos]
    ELSE layout_loop(sch, k + 1, MapPut(offsets, sch.fields[k], pos),
                     pos + length_in_bytes(sch, sch.fields[k]))

\* Layout::new without the 4 bytes of the flag (not what the code does).
Layout_new_noflag(sch) == layout_loop(sch, 1, EmptyMap, 0)

\* Layout::new: the position starts at 4, after the empty/used flag.
Layout_new(sch) == layout_loop(sch, 1, EmptyMap, 4)

\* Layout::offset, Layout::slot_size
Layout_offset(layout, field) == layout.offsets[field]
Layout_slot_size(layout) == layout.slot_size

\* The schemas Layout::new is applied to: up to MaxFields fields of distinct
\* names, each an int or a varchar of length 1, 9 or 16.
FieldNames == {FieldA, FieldB, FieldC}
FieldKinds ==
    {[ftype |-> INTEGER, length |-> 0]}
    \cup {[ftype |-> VARCHAR, length |-> n] : n \in {1, TestVarcharLen, 16}}

RECURSIVE SchemasOfLen(_)
SchemasOfLen(n) ==
    IF n = 0 THEN {Schema_new}
    ELSE {Schema_add_field(sch, f, k.ftype, k.length) :
            sch \in {x \in SchemasOfLen(n - 1) : TRUE},
            f \in FieldNames, k \in FieldKinds}

Distinct(q) == \A i, j \in 1..Len(q) : i # j => q[i] # q[j]

LayoutSchemas ==
    {sch \in UNION {SchemasOfLen(n) : n \in 1..MaxFields} : Distinct(sch.fields)}

\* The schema of test_layout: A int, B varchar(9), C int
TestSchema ==
    Schema_add_int_field(
        Schema_add_string_field(Schema_add_int_field(Schema_new, FieldA),
                                FieldB, TestVarcharLen),
        FieldC)

NoLayout == [schema |-> Schema_new, offsets |-> EmptyMap, slot_size |-> NoVal]

InitLayout ==
    /\ StartFrom(FreshStore(MaxTx, NBufs))
    /\ thr \in {[pc |-> "chosen", schema |-> sch, layout |-> NoLayout] :
                    sch \in LayoutSchemas}
    /\ now = 0
    /\ mutex = NoThread

\* Layout::new(schema)
LayoutNew ==
    /\ thr.pc = "chosen"
    /\ thr' = [thr EXCEPT !.pc = "laid", !.layout = Layout_new(thr.schema)]
    /\ UNCHANGED << mainvars, logvars, now, mutex >>

\* layout.offset(field) of each field and layout.slot_size() are read.
LayoutRead ==
    /\ thr.pc = "laid"
    /\ thr' = [thr EXCEPT !.pc = "read"]
    /\ UNCHANGED << mainvars, logvars, now, mutex >>

NextLayout == LayoutNew \/ LayoutRead

SpecLayout == InitLayout /\ [][NextLayout]_vars

\* The size the claim gives a field: 4 for INTEGER, 4 + length for VARCHAR.
ClaimedSize(info) == IF info.ftype = INTEGER THEN 4 ELSE 4 + info.length

\* C26: the first field is at offset 4, each following field at the previous
\* field's offset plus the previous field's size, and slot_size is the last
\* field's offset plus its size; for (A int, B varchar(9), C int) the offsets
\* are 4, 8, 21 and slot_size is 25.
C26_LayoutOffsets ==
    thr.pc # "chosen" =>
        LET f == thr.schema.fields
            n == Len(f)
            off(i) == Layout_offset(thr.layout, f[i])
            size(i) == ClaimedSize(thr.schema.info[f[i]])
        IN /\ off(1) = 4
           /\ \A i \in 2..n : off(i) = off(i - 1) + size(i - 1)
           /\ Layout_slot_size(thr.layout) = off(n) + size(n)
           /\ thr.schema = TestSchema =>
                /\ << off(1), off(2), off(3) >> = << 4, 8, 21 >>
                /\ Layout_slot_size(thr.layout) = 25

\* Layout::new was applied to the schema of test_layout.
C26_Witness ==
    /\ thr.pc = "read"
    /\ thr.schema = TestSchema
    /\ thr.layout.offsets = (FieldA :> 4) @@ (FieldB :> 8) @@ (FieldC :> 21)
    /\ thr.layout.slot_size = 25

\* =====================================================================
\* The catalog: Transaction as RecordPage and TableScan use it, on pages of
\* bytes.  One transaction, one scan open at a time: a scan pins one block,
\* every pin finds a buffer, and the transaction reads and writes the page
\* of the block it has pinned.  st is the record of the table files (each
\* the sequence of its blocks as the transaction sees them) and of the
\* transaction's list of pinned blocks, with the block size of the file
\* manager.
\* =====================================================================
TableBlockSize == 400
MAX_NAME == 16

\* let x = v; F(x): the value v is computed once, then F is applied to it.
Bind(v, F(_)) == CHOOSE r \in {F(x) : x \in {v}} : TRUE
SlotEmpty == 0
SlotUsed == 1

tblcat == << 116, 98, 108, 99, 97, 116 >>
fldcat == << 102, 108, 100, 99, 97, 116 >>
table_name == << 116, 97, 98, 108, 101, 95, 110, 97, 109, 101 >>
slot_size == << 115, 108, 111, 116, 95, 115, 105, 122, 101 >>
field_name == << 102, 105, 101, 108, 100, 95, 110, 97, 109, 101 >>
field_type == << 102, 105, 101, 108, 100, 95, 116, 121, 112, 101 >>
field_length == << 102, 105, 101, 108, 100, 95, 108, 101, 110, 103, 116, 104 >>
field_offset == << 102, 105, 101, 108, 100, 95, 111, 102, 102, 115, 101, 116 >>

\* TableScan::new: format!("{}.tbl", table)
TableFile(table) == table \o << 46, 116, 98, 108 >>

BlockId_new(filename, number) == [filename |-> filename, number |-> number]

\* Transaction::pin, through BufferList::pin
TransactionB_pin(st, blk) == [st EXCEPT !.pins = Append(@, blk)]

\* Transaction::unpin, through BufferList::unpin: every occurrence of the
\* block leaves the list.
TransactionB_unpin(st, blk) == [st EXCEPT !.pins = SelectSeq(@, LAMBDA b : b # blk)]

\* Transaction::size
TransactionB_size(st, filename) == Len(st.files[filename])

\* Transaction::append, through FileMgr::append: a block of zeros
TransactionB_append(st, filename) ==
    [st EXCEPT !.files[filename] = Append(@, Page_new(TableBlockSize))]

\* Transaction::block_size
TransactionB_block_size(st) == st.block_size

IsPinned(st, blk) == \E i \in 1..Len(st.pins) : st.pins[i] = blk

\* Transaction::get_int: None (NoVal) when the block is not pinned
TransactionB_get_int(st, blk, offset) ==
    IF IsPinned(st, blk)
    THEN Page_get_int(st.files[blk.filename][blk.number + 1], offset)
    ELSE NoVal

\* Transaction::set_int: nothing is written when the block is not pinned
TransactionB_set_int(st, blk, offset, val) ==
    IF IsPinned(st, blk)
    THEN [st EXCEPT !.files[blk.filename][blk.number + 1] = Page_set_int(@, offset, val)]
    ELSE st

\* Transaction::get_string (from the specification: as get_int, with the
\* page's get_string)
TransactionB_get_string(st, blk, offset) ==
    IF IsPinned(st, blk)
    THEN Page_get_string(st.files[blk.filename][blk.number + 1], offset).val
    ELSE << >>

\* Transaction::set_string (from the specification: analogous to set_int)
TransactionB_set_string(st, blk, offset, val) ==
    IF IsPinned(st, blk)
    THEN [st EXCEPT !.files[blk.filename][blk.number + 1] = Page_set_string(@, offset, val)]
    ELSE st

\* ---------------------------------------------------------------------
\* RecordPage: rp is the record of its block and layout
\* ---------------------------------------------------------------------
\* RecordPage::offset
RecordPage_offset(rp, slot) == slot * Layout_slot_size(rp.layout)

\* RecordPage::is_valid_slot
RecordPage_is_valid_slot(st, rp, slot) ==
    RecordPage_offset(rp, slot + 1) <= TransactionB_block_size(st)

\* RecordPage::new pins the block.
RecordPage_new(st, blk, layout) ==
    [st |-> TransactionB_pin(st, blk), rp |-> [block_id |-> blk, layout |-> layout]]

\* RecordPage::get_int
RecordPage_get_int(st, rp, slot, field) ==
    TransactionB_get_int(st, rp.block_id, RecordPage_offset(rp, slot) + Layout_offset(rp.layout, field))

\* RecordPage::set_int
RecordPage_set_int(st, rp, slot, field, val) ==
    TransactionB_set_int(st, rp.block_id,
                         RecordPage_offset(rp, slot) + Layout_offset(rp.layout, field), val)

\* RecordPage::get_string (from the specification)
RecordPage_get_string(st, rp, slot, field) ==
    TransactionB_get_string(st, rp.block_id,
                            RecordPage_offset(rp, slot) + Layout_offset(rp.layout, field))

\* RecordPage::set_string (from the specification)
RecordPage_set_string(st, rp, slot, field, val) ==
    TransactionB_set_string(st, rp.block_id,
                            RecordPage_offset(rp, slot) + Layout_offset(rp.layout, field), val)

\* RecordPage::set_flag
RecordPage_set_flag(st, rp, slot, flag) ==
    TransactionB_set_int(st, rp.block_id, RecordPage_offset(rp, slot), flag)

\* RecordPage::search_after, the loop from new_slot on: the first valid slot
\* with the flag, None (NoVal) when there is none.
RECURSIVE search_loop(_, _, _, _)
search_loop(st, rp, new_slot, flag) ==
    IF ~RecordPage_is_valid_slot(st, rp, new_slot) THEN NoVal
    ELSE IF TransactionB_get_int(st, rp.block_id, RecordPage_offset(rp, new_slot)) = flag
    THEN new_slot
    ELSE search_loop(st, rp, new_slot + 1, flag)

\* A search that starts at the slot given, not after it (not what the code does).
RecordPage_search_after_from(st, rp, slot, flag) ==
    search_loop(st, rp, IF slot = NoVal THEN 0 ELSE slot, flag)

\* RecordPage::search_after: slot is NoVal for None.
RecordPage_search_after(st, rp, slot, flag) ==
    search_loop(st, rp, IF slot = NoVal THEN 0 ELSE slot + 1, flag)

\* RecordPage::next_after
RecordPage_next_after(st, rp, slot) == RecordPage_search_after(st, rp, slot, SlotUsed)

\* RecordPage::insert_after that leaves the flag of the slot it found (not
\* what the code does)
RecordPage_insert_after_noflag(st, rp, slot) ==
    Bind(RecordPage_search_after(st, rp, slot, SlotEmpty), LAMBDA new_slot :
        [st |-> st, slot |-> new_slot])

\* RecordPage::insert_after
RecordPage_insert_after(st, rp, slot) ==
    Bind(RecordPage_search_after(st, rp, slot, SlotEmpty), LAMBDA new_slot :
        [st |-> IF new_slot # NoVal THEN RecordPage_set_flag(st, rp, new_slot, SlotUsed)
                ELSE st,
         slot |-> new_slot])

\* RecordPage::format, the fields of one slot from field number k on: the
\* INTEGER fields are set to 0, the VARCHAR fields are left.
RECURSIVE format_fields(_, _, _, _)
format_fields(st, rp, slot, k) ==
    LET fields == rp.layout.schema.fields IN
    IF k > Len(fields) THEN st
    ELSE Bind(IF Schema_ftype(rp.layout.schema, fields[k]) = INTEGER
              THEN RecordPage_set_int(st, rp, slot, fields[k], 0)
              ELSE st,
              LAMBDA s1 : format_fields(s1, rp, slot, k + 1))

\* RecordPage::format, the loop over the slots from slot on
RECURSIVE format_loop(_, _, _)
format_loop(st, rp, slot) ==
    IF ~RecordPage_is_valid_slot(st, rp, slot) THEN st
    ELSE Bind(RecordPage_set_flag(st, rp, slot, SlotEmpty), LAMBDA s1 :
         Bind(format_fields(s1, rp, slot, 1), LAMBDA s2 :
            format_loop(s2, rp, slot + 1)))

\* RecordPage::format
RecordPage_format(st, rp) == format_loop(st, rp, 0)

\* ---------------------------------------------------------------------
\* TableScan: ts is the record of its layout, its RecordPage (NoRp for
\* None), its file name and its current slot (NoVal for None)
\* ---------------------------------------------------------------------
NoRp == [block_id |-> BlockId_new(<< >>, NoBlock), layout |-> NoLayout]

\* TableScan::close
TableScan_close(st, ts) ==
    IF ts.rp # NoRp THEN TransactionB_unpin(st, ts.rp.block_id) ELSE st

\* TableScan::move_to_block
TableScan_move_to_block(st, ts, block_num) ==
    Bind(TableScan_close(st, ts), LAMBDA s1 :
    Bind(RecordPage_new(s1, BlockId_new(ts.filename, block_num), ts.layout), LAMBDA r :
        [st |-> r.st, ts |-> [ts EXCEPT !.rp = r.rp, !.current_slot = NoVal]]))

\* TableScan::move_to_new_block: the number of the appended block is the
\* length of the file before the append.
TableScan_move_to_new_block(st, ts) ==
    Bind(TableScan_close(st, ts), LAMBDA s1 :
    Bind(TransactionB_append(s1, ts.filename), LAMBDA s2 :
    Bind(RecordPage_new(s2, BlockId_new(ts.filename, TransactionB_size(s1, ts.filename)),
                        ts.layout), LAMBDA r :
    Bind(RecordPage_format(r.st, r.rp), LAMBDA s3 :
        [st |-> s3, ts |-> [ts EXCEPT !.rp = r.rp, !.current_slot = NoVal]]))))

\* TableScan::new
TableScan_new(st, layout, table) ==
    Bind([layout |-> layout, rp |-> NoRp, filename |-> TableFile(table),
          current_slot |-> NoVal], LAMBDA ts :
        IF TransactionB_size(st, ts.filename) = 0
        THEN TableScan_move_to_new_block(st, ts)
        ELSE TableScan_move_to_block(st, ts, 0))

\* TableScan::before_first
TableScan_before_first(st, ts) == TableScan_move_to_block(st, ts, 0)

\* TableScan::at_last_block
TableScan_at_last_block(st, ts) ==
    ts.rp # NoRp /\ ts.rp.block_id.number = TransactionB_size(st, ts.filename) - 1

\* TableScan::next, the loop while the current slot is None
RECURSIVE next_loop(_, _)
next_loop(st, ts) ==
    IF ts.current_slot # NoVal THEN [st |-> st, ts |-> ts, found |-> TRUE]
    ELSE IF TableScan_at_last_block(st, ts) THEN [st |-> st, ts |-> ts, found |-> FALSE]
    ELSE Bind(TableScan_move_to_block(st, ts, ts.rp.block_id.number + 1), LAMBDA m :
         Bind([m.ts EXCEPT !.current_slot =
                    RecordPage_next_after(m.st, m.ts.rp, m.ts.current_slot)], LAMBDA ts1 :
            next_loop(m.st, ts1)))

\* A next that never leaves the block it is on (not what the code does).
TableScan_next_stay(st, ts) ==
    Bind([ts EXCEPT !.current_slot = RecordPage_next_after(st, ts.rp, ts.current_slot)],
         LAMBDA ts1 : [st |-> st, ts |-> ts1, found |-> ts1.current_slot # NoVal])

\* TableScan::next
TableScan_next(st, ts) ==
    Bind([ts EXCEPT !.current_slot = RecordPage_next_after(st, ts.rp, ts.current_slot)],
         LAMBDA ts1 : next_loop(st, ts1))

\* TableScan::insert, the loop while the current slot is None
RECURSIVE insert_loop(_, _)
insert_loop(st, ts) ==
    IF ts.current_slot # NoVal THEN [st |-> st, ts |-> ts]
    ELSE Bind(IF TableScan_at_last_block(st, ts)
              THEN TableScan_move_to_new_block(st, ts)
              ELSE TableScan_move_to_block(st, ts, ts.rp.block_id.number + 1), LAMBDA m :
         Bind(RecordPage_insert_after(m.st, m.ts.rp, m.ts.current_slot), LAMBDA r :
         Bind([m.ts EXCEPT !.current_slot = r.slot], LAMBDA ts1 :
            insert_loop(r.st, ts1))))

\* TableScan::insert
TableScan_insert(st, ts) ==
    Bind(RecordPage_insert_after(st, ts.rp, ts.current_slot), LAMBDA r :
    Bind([ts EXCEPT !.current_slot = r.slot], LAMBDA ts1 :
        insert_loop(r.st, ts1)))

\* TableScan::get_int
TableScan_get_int(st, ts, field) ==
    IF ts.rp # NoRp /\ ts.current_slot # NoVal
    THEN RecordPage_get_int(st, ts.rp, ts.current_slot, field)
    ELSE -1

\* TableScan::set_int
TableScan_set_int(st, ts, field, val) ==
    IF ts.rp # NoRp /\ ts.current_slot # NoVal
    THEN RecordPage_set_int(st, ts.rp, ts.current_slot, field, val)
    ELSE st

\* TableScan::get_string (from the specification)
TableScan_get_string(st, ts, field) ==
    IF ts.rp # NoRp /\ ts.current_slot # NoVal
    THEN RecordPage_get_string(st, ts.rp, ts.current_slot, field)
    ELSE << >>

\* TableScan::set_string (from the specification)
TableScan_set_string(st, ts, field, val) ==
    IF ts.rp # NoRp /\ ts.current_slot # NoVal
    THEN RecordPage_set_string(st, ts.rp, ts.current_slot, field, val)
    ELSE st

\* ---------------------------------------------------------------------
\* TableMgr
\* ---------------------------------------------------------------------
\* TableMgr::new: the schemas and layouts of the two catalogs
table_catalog_schema ==
    Schema_add_int_field(Schema_add_string_field(Schema_new, table_name, MAX_NAME), slot_size)

table_catalog_layout == Layout_new(table_catalog_schema)

field_catalog_schema ==
    Schema_add_int_field(
        Schema_add_int_field(
            Schema_add_int_field(
                Schema_add_string_field(
                    Schema_add_string_field(Schema_new, table_name, MAX_NAME),
                    field_name, MAX_NAME),
                field_type),
            field_length),
        field_offset)

field_catalog_layout == Layout_new(field_catalog_schema)

\* TableMgr::create_table, the loop over schema.fields() from field number k on
RECURSIVE create_fields(_, _, _, _, _, _)
create_fields(st, ts, name, schema, layout, k) ==
    IF k > Len(schema.fields) THEN [st |-> st, ts |-> ts]
    ELSE Bind(TableScan_insert(st, ts), LAMBDA i :
         Bind(TableScan_set_string(i.st, i.ts, table_name, name), LAMBDA s1 :
         Bind(TableScan_set_string(s1, i.ts, field_name, schema.fields[k]), LAMBDA s2 :
         Bind(TableScan_set_int(s2, i.ts, field_type,
                                Schema_ftype(schema, schema.fields[k])), LAMBDA s3 :
         Bind(TableScan_set_int(s3, i.ts, field_length,
                                Schema_length(schema, schema.fields[k])), LAMBDA s4 :
         Bind(TableScan_set_int(s4, i.ts, field_offset,
                                Layout_offset(layout, schema.fields[k])), LAMBDA s5 :
            create_fields(s5, i.ts, name, schema, layout, k + 1)))))))

\* TableMgr::create_table
TableMgr_create_table(st, name, schema) ==
    Bind(Layout_new(schema), LAMBDA layout :
    Bind(TableScan_new(st, table_catalog_layout, tblcat), LAMBDA t0 :
    Bind(TableScan_insert(t0.st, t0.ts), LAMBDA t1 :
    Bind(TableScan_set_string(t1.st, t1.ts, table_name, name), LAMBDA s2 :
    Bind(TableScan_set_int(s2, t1.ts, slot_size, Layout_slot_size(layout)), LAMBDA s3 :
    Bind(TableScan_close(s3, t1.ts), LAMBDA s4 :
    Bind(TableScan_new(s4, field_catalog_layout, fldcat), LAMBDA f0 :
    Bind(create_fields(f0.st, f0.ts, name, schema, layout, 1), LAMBDA f1 :
        TableScan_close(f1.st, f1.ts)))))))))

\* Layout::from (from the specification: the Layout of the reconstructed
\* schema, the offsets map and the slot size)
Layout_from(schema, offsets, slot_sz) ==
    [schema |-> schema, offsets |-> offsets, slot_size |-> slot_sz]

\* TableMgr::layout, the scan of tblcat up to the first tuple of the table
RECURSIVE table_catalog_loop(_, _, _)
table_catalog_loop(st, ts, table) ==
    Bind(TableScan_next(st, ts), LAMBDA n :
        IF ~n.found THEN [st |-> n.st, ts |-> n.ts, slot_size |-> -1]
        ELSE IF TableScan_get_string(n.st, n.ts, table_name) = table
        THEN [st |-> n.st, ts |-> n.ts,
              slot_size |-> TableScan_get_int(n.st, n.ts, slot_size)]
        ELSE table_catalog_loop(n.st, n.ts, table))

\* TableMgr::layout, the scan of fldcat
RECURSIVE field_catalog_loop(_, _, _, _, _)
field_catalog_loop(st, ts, table, schema, offsets) ==
    Bind(TableScan_next(st, ts), LAMBDA n :
        IF ~n.found THEN [st |-> n.st, ts |-> n.ts, schema |-> schema, offsets |-> offsets]
        ELSE IF TableScan_get_string(n.st, n.ts, table_name) = table
        THEN Bind(TableScan_get_string(n.st, n.ts, field_name), LAMBDA fname :
             Bind(Schema_add_field(schema, fname,
                                   TableScan_get_int(n.st, n.ts, field_type),
                                   TableScan_get_int(n.st, n.ts, field_length)), LAMBDA sch1 :
             Bind(MapPut(offsets, fname, TableScan_get_int(n.st, n.ts, field_offset)),
                  LAMBDA offsets1 :
                field_catalog_loop(n.st, n.ts, table, sch1, offsets1))))
        ELSE field_catalog_loop(n.st, n.ts, table, schema, offsets))

\* TableMgr::layout
TableMgr_layout(st, table) ==
    Bind(TableScan_new(st, table_catalog_layout, tblcat), LAMBDA t0 :
    Bind(table_catalog_loop(t0.st, t0.ts, table), LAMBDA t1 :
    Bind(TableScan_close(t1.st, t1.ts), LAMBDA s2 :
    Bind(TableScan_new(s2, field_catalog_layout, fldcat), LAMBDA f0 :
    Bind(field_catalog_loop(f0.st, f0.ts, table, Schema_new, EmptyMap), LAMBDA f1 :
        [st |-> TableScan_close(f1.st, f1.ts),
         layout |-> Layout_from(f1.schema, f1.offsets, t1.slot_size)])))))

\* The store before any table file exists, no block pinned.
NoTables == [files |-> [f \in {TableFile(tblcat), TableFile(fldcat)} |-> << >>],
             pins |-> << >>, block_size |-> TableBlockSize]

\* TableMgr::new
TableMgr_new(st, is_new) ==
    IF is_new
    THEN Bind(TableMgr_create_table(st, tblcat, table_catalog_schema), LAMBDA s1 :
            TableMgr_create_table(s1, fldcat, field_catalog_schema))
    ELSE st

\* ---------------------------------------------------------------------
\* The catalog of test_table_mgr: tables are created and their layouts asked
\* ---------------------------------------------------------------------
MaxTables == 2

MyTable == << 77, 121, 84, 97, 98, 108, 101 >>
TableNames == {MyTable, << 84, 49 >>, << 84, 50 >>}

\* The schema of test_table_mgr, a schema of one int, and one whose first
\* field is a varchar of the longest name.
TableSchemas ==
    {TestSchema,
     Schema_add_int_field(Schema_new, FieldA),
     Schema_add_int_field(Schema_add_string_field(Schema_new, FieldB, MAX_NAME), FieldA)}

\* TableMgr::new(true, tx) has run; created maps each table created since to
\* its schema, asked and out are the argument and the result of the last
\* call of layout.
InitCatalog ==
    /\ StartFrom(FreshStore(MaxTx, NBufs))
    /\ thr = [st |-> TableMgr_new(NoTables, TRUE), created |-> EmptyMap,
              asked |-> << >>, out |-> NoLayout]
    /\ now = 0
    /\ mutex = NoThread

\* tm.create_table(name, schema, tx) of a table that does not exist yet
CatalogCreate(name, schema) ==
    /\ name \notin DOMAIN thr.created
    /\ Cardinality(DOMAIN thr.created) < MaxTables
    /\ thr' = [st |-> TableMgr_create_table(thr.st, name, schema),
               created |-> MapPut(thr.created, name, schema),
               asked |-> << >>, out |-> NoLayout]
    /\ UNCHANGED << mainvars, logvars, now, mutex >>

\* tm.layout(name, tx) of a table created before
CatalogLayout(name) ==
    /\ name \in DOMAIN thr.created
    /\ \E r \in {TableMgr_layout(thr.st, name)} :
            thr' = [thr EXCEPT !.st = r.st, !.asked = name, !.out = r.layout]
    /\ UNCHANGED << mainvars, logvars, now, mutex >>

NextCatalog ==
    \/ \E name \in TableNames, schema \in TableSchemas : CatalogCreate(name, schema)
    \/ \E name \in TableNames : CatalogLayout(name)

SpecCatalog == InitCatalog /\ [][NextCatalog]_vars

\* C25: after create_table(name, schema), layout(name) returns a Layout whose
\* slot_size and whose offset, type and length of every field are those of
\* Layout::new(schema), also when other tables were created before or after
\* in the same catalog.
C25_CatalogRoundTrip ==
    thr.asked # << >> =>
        LET schema == thr.created[thr.asked]
            layout == Layout_new(schema)
        IN /\ Layout_slot_size(thr.out) = Layout_slot_size(layout)
           /\ thr.out.schema.fields = schema.fields
           /\ \A i \in 1..Len(schema.fields) :
                LET f == schema.fields[i] IN
                /\ Layout_offset(thr.out, f) = Layout_offset(layout, f)
                /\ Schema_ftype(thr.out.schema, f) = Schema_ftype(schema, f)
                /\ Schema_length(thr.out.schema, f) = Schema_length(schema, f)

\* MyTable (A int, B varchar(9), C int) was created, its fields in the second
\* block of fldcat, another table was created after it, and layout("MyTable")
\* returned the offsets 4, 8, 21 and the slot size 25.
C25_Witness ==
    /\ thr.asked = MyTable
    /\ thr.created[MyTable] = TestSchema
    /\ Cardinality(DOMAIN thr.created) = MaxTables
    /\ Len(thr.st.files[TableFile(fldcat)]) >= 2
    /\ thr.out.offsets = (FieldA :> 4) @@ (FieldB :> 8) @@ (FieldC :> 21)
    /\ thr.out.slot_size = 25
    /\ thr.st.pins = << >>

\* =====================================================================
\* Commit ordering
\* =====================================================================
\* C27: undo-only commit ordering: at the step that puts the Commit record of
\* T into the log file, every cell T modified holds T's value on disk and no
\* buffer is left marked as modified by T, so that at every crash point a
\* Commit record on disk implies T's pages on disk.
C27_CommitOrdering ==
    [][\A t \in TxNums :
          ( /\ ~LogHas(Flatten(logdisk), OpCommit, t)
            /\ LogHas(Flatten(logdisk'), OpCommit, t) ) =>
                /\ \A b \in Blocks, o \in Cells :
                      hist.wrote[t][b][o] # NoVal => disk'[b][o] = hist.wrote[t][b][o]
                /\ \A i \in BufIdx : pool'[i].txnum # Some(t)]_vars

\* =====================================================================
\* Logged set_int calls of transactions that pin and unpin blocks
\* =====================================================================
MaxLogged == 2

\* Two transactions are running, nothing is pinned; thr.held as in SpecGet,
\* thr.last is the set_int call that has just returned (res is the value it
\* was given), NoCall after any other call.
InitSet ==
    /\ StartFrom(AfterNews(FreshStore(MaxTx, NBufs), MaxTx))
    /\ thr = [held |-> [t \in TxNums |-> [b \in Blocks |-> 0]], last |-> NoCall]
    /\ now = 0
    /\ mutex = NoThread

\* Transaction::set_int with log = true
LoggedSetInt(t, blk, offset, val) ==
    /\ latest_lsn < MaxTx + MaxLogged
    /\ Install(Transaction_set_int(Cur, t, blk, offset, val, TRUE))
    /\ thr' = [thr EXCEPT !.last = [op |-> "set_int", t |-> t, blk |-> blk,
                                    offset |-> offset, res |-> val]]
    /\ UNCHANGED << now, mutex, needRecover, crashes, hist >>

NextSet ==
    \/ \E t \in TxNums, blk \in Blocks : GetPin(t, blk)
    \/ \E t \in TxNums, blk \in Blocks : GetUnpin(t, blk)
    \/ \E t \in TxNums, blk \in Blocks, offset \in Cells, val \in Values :
          LoggedSetInt(t, blk, offset, val)

SpecSet == InitSet /\ [][NextSet]_vars

\* C28: every set_int with log = true of a transaction on a block it has
\* pinned appends one SetInt record with the transaction's txnum, the block,
\* the offset and the value that was at the offset just before the write,
\* and leaves the buffer of the block with the new value, the writer's txnum
\* and the LSN of that record.
C28_LoggedSetInt ==
    [][\A t \in TxNums, blk \in Blocks, offset \in Cells, val \in Values :
          ( /\ LoggedSetInt(t, blk, offset, val)
            /\ thr.held[t][blk] > 0 ) =>
              LET i == find_existing_buffer(Cur, blk) IN
              /\ i # NoIdx
              /\ latest_lsn' = latest_lsn + 1
              /\ LogMgr_iterator(Cur') =
                    << SetIntRecord(t, blk, offset, pool[i].contents[offset]) >>
                        \o LogMgr_iterator(Cur)
              /\ pool'[i].block = blk
              /\ pool'[i].contents[offset] = val
              /\ pool'[i].txnum = Some(t)
              /\ pool'[i].lsn = latest_lsn']_vars

\* =====================================================================
\* LogMgr: append and flush_record
\* =====================================================================
MaxFlushLsn == 4

\* The records appended: a Start record (8 bytes) and a SetInt record (32).
FlushRecords == {StartRecord(TxA), SetIntRecord(TxA, 0, 0, 0)}

\* LogMgr::new on an empty log file; thr.recs is the history of the records
\* appended (the k-th has LSN k), thr.lsn the argument of the flush_record
\* that has just returned, NoLsn after an append.
InitFlush ==
    /\ StartFrom(FreshStore(MaxTx, NBufs))
    /\ thr = [recs |-> << >>, lsn |-> NoLsn]
    /\ now = 0
    /\ mutex = NoThread

\* lm.append(record)
FlushAppend(rec) ==
    /\ latest_lsn < MaxFlushLsn
    /\ Install(LogMgr_append(Cur, rec))
    /\ thr' = [recs |-> Append(thr.recs, rec), lsn |-> NoLsn]
    /\ UNCHANGED << now, mutex, needRecover, crashes, hist >>

\* lm.flush_record(lsn) of the LSN of a record appended before
FlushRecord(lsn) ==
    /\ lsn <= latest_lsn
    /\ Install(LogMgr_flush_record(Cur, lsn))
    /\ thr' = [thr EXCEPT !.lsn = lsn]
    /\ UNCHANGED << now, mutex, needRecover, crashes, hist >>

NextFlush ==
    \/ \E rec \in FlushRecords : FlushAppend(rec)
    \/ \E lsn \in 1..MaxFlushLsn : FlushRecord(lsn)

SpecFlush == InitFlush /\ [][NextFlush]_vars

\* C29: after flush_record(lsn) returns, every log record with an LSN of at
\* most lsn is in the log file on disk, for every lsn from 1 to latest_lsn
\* and whatever last_saved_lsn was before the call.
C29_FlushRecord ==
    thr.lsn # NoLsn =>
        \A k \in 1..thr.lsn :
            /\ k <= Len(Flatten(logdisk))
            /\ Flatten(logdisk)[k] = thr.recs[k]

\* flush_record returned without writing, its lsn being below last_saved_lsn,
\* while newer records in the second block of the log are not on disk yet.
C29_Witness ==
    /\ thr.lsn # NoLsn
    /\ thr.lsn < last_saved_lsn
    /\ last_saved_lsn < latest_lsn
    /\ current_block >= 1
    /\ Unflushed(logdisk, logpage, current_block) > 0

\* =====================================================================
\* Buffer replacement: pins that take over a dirty unpinned buffer
\* =====================================================================
\* thr.prev: the buffer the pin that has just returned took from another
\* block while it was unpinned and dirty, with the block and the page it
\* held and the page that block had on disk just before the call (history);
\* NoReplace after any other call.
NoReplace == [idx |-> NoIdx, block |-> NoBlock, page |-> ZeroPage, ondisk |-> ZeroPage]

InitReplace ==
    /\ StartFrom(AfterNews(FreshStore(MaxTx, NBufs), MaxTx))
    /\ thr = [held |-> [t \in TxNums |-> [b \in Blocks |-> 0]],
              last |-> NoCall, prev |-> NoReplace]
    /\ now = 0
    /\ mutex = NoThread

\* The buffer try_pin(blk) is about to reassign, if it is dirty and holds a block.
Replaced(s, blk) ==
    LET u == choose_unpinned_buffer(s) IN
    IF /\ find_existing_buffer(s, blk) = NoIdx
       /\ u # NoIdx
       /\ s.pool[u].block # NoBlock
       /\ s.pool[u].txnum # None
    THEN [idx |-> u, block |-> s.pool[u].block, page |-> s.pool[u].contents,
          ondisk |-> s.disk[s.pool[u].block]]
    ELSE NoReplace

\* Transaction::pin
ReplPin(t, blk) ==
    /\ thr.held[t][blk] < MaxHeld
    /\ PinsOf(blk) < MaxPoolPins
    /\ Install(Transaction_pin(Cur, t, blk))
    /\ thr' = [held |-> IF BufferMgr_pin(Cur, blk).idx # NoIdx
                        THEN [thr.held EXCEPT ![t][blk] = @ + 1]
                        ELSE thr.held,
               last |-> [op |-> "pin", t |-> t, blk |-> blk, offset |-> 0,
                         res |-> NoVal],
               prev |-> Replaced(Cur, blk)]
    /\ UNCHANGED << now, mutex, needRecover, crashes, hist >>

\* Transaction::unpin of a block t has pinned
ReplUnpin(t, blk) ==
    /\ thr.held[t][blk] > 0
    /\ Install(Transaction_unpin(Cur, t, blk))
    /\ thr' = [held |-> [thr.held EXCEPT ![t][blk] = @ - 1],
               last |-> NoCall, prev |-> NoReplace]
    /\ UNCHANGED << now, mutex, needRecover, crashes, hist >>

\* Transaction::set_int with log = true
ReplSetInt(t, blk, offset, val) ==
    /\ latest_lsn < MaxTx + MaxLogged
    /\ Install(Transaction_set_int(Cur, t, blk, offset, val, TRUE))
    /\ thr' = [thr EXCEPT !.last = NoCall, !.prev = NoReplace]
    /\ UNCHANGED << now, mutex, needRecover, crashes, hist >>

NextReplace ==
    \/ \E t \in TxNums, blk \in Blocks : ReplPin(t, blk)
    \/ \E t \in TxNums, blk \in Blocks : ReplUnpin(t, blk)
    \/ \E t \in TxNums, blk \in Blocks, offset \in Cells, val \in Values :
          ReplSetInt(t, blk, offset, val)

SpecReplace == InitReplace /\ [][NextReplace]_vars

\* C30: when try_pin has assigned an unpinned dirty buffer to a different
\* block, the page the buffer held, modifications included, is the page of
\* its previous block on disk, the buffer holds the new block as it is on
\* disk after that write, and the buffer is clean.
C30_ReplacementFlushes ==
    thr.prev.idx # NoIdx =>
        LET i == thr.prev.idx IN
        /\ thr.prev.block < fileLen
        /\ disk[thr.prev.block] = thr.prev.page
        /\ pool[i].block = thr.last.blk
        /\ pool[i].block # thr.prev.block
        /\ pool[i].block < fileLen => pool[i].contents = disk[pool[i].block]
        /\ pool[i].txnum = None

\* A pin has just taken over a buffer whose page differed from the page its
\* block had on disk: the modification was in the buffer only.
C30_Witness ==
    /\ thr.prev.idx # NoIdx
    /\ thr.prev.page # thr.prev.ondisk
    /\ pool[thr.prev.idx].pins = 1


\* C31: when a pin assigns a buffer to a block (assign_to_block), the page of
\* the buffer afterwards is the block as it is on disk, and the zero block
\* if the block lies at or beyond the end of the file.
C31_AssignReadsBlock ==
    [][\A t \in TxNums, blk \in Blocks :
          ( /\ ReplPin(t, blk)
            /\ find_existing_buffer(Cur, blk) = NoIdx
            /\ choose_unpinned_buffer(Cur) # NoIdx ) =>
              LET u == choose_unpinned_buffer(Cur) IN
              /\ pool'[u].block = blk
              /\ pool'[u].contents = IF blk < fileLen' THEN disk'[blk] ELSE ZeroPage]_vars


\* C32: while a transaction has made more pin calls than unpin calls on a
\* block, its buffer list maps the block to a buffer holding that block,
\* and the pin count of the buffer is at least the number of pins the
\* transaction still holds, so the buffer cannot be replaced.
C32_PinsRefCounted ==
    \A t \in TxNums, b \in Blocks :
        thr.held[t][b] > 0 =>
            LET i == txs[t].buffers[b] IN
            /\ i # NoIdx
            /\ pool[i].block = b
            /\ pool[i].pins >= thr.held[t][b]


\* =====================================================================
\* The available count of the pool under pins and unpins of transactions
\* =====================================================================
\* thr.last: the pin or unpin call that has just returned: for a pin,
\* whether BufferMgr::pin gave a buffer; for an unpin, whether the
\* transaction's buffer list had the block.
InitAvail ==
    /\ StartFrom(AfterNews(FreshStore(MaxTx, NBufs), MaxTx))
    /\ thr = [last |-> [op |-> "none", t |-> NoTx, blk |-> NoBlock, ok |-> FALSE]]
    /\ now = 0
    /\ mutex = NoThread

\* Transaction::pin, timed out or not
AvailPin(t, blk) ==
    /\ PinsOf(blk) < MaxPoolPins
    /\ Install(Transaction_pin(Cur, t, blk))
    /\ thr' = [last |-> [op |-> "pin", t |-> t, blk |-> blk,
                         ok |-> BufferMgr_pin(Cur, blk).idx # NoIdx]]
    /\ UNCHANGED << now, mutex, needRecover, crashes, hist >>

\* Transaction::unpin of any block, pinned by t or not
AvailUnpin(t, blk) ==
    /\ Install(Transaction_unpin(Cur, t, blk))
    /\ thr' = [last |-> [op |-> "unpin", t |-> t, blk |-> blk,
                         ok |-> BufferList_buffer(Cur, t, blk) # NoIdx]]
    /\ UNCHANGED << now, mutex, needRecover, crashes, hist >>

NextAvail ==
    \/ \E t \in TxNums, blk \in Blocks : AvailPin(t, blk)
    \/ \E t \in TxNums, blk \in Blocks : AvailUnpin(t, blk)

SpecAvail == InitAvail /\ [][NextAvail]_vars

\* C33: available is the number of buffers whose pin count is zero, after
\* any sequence of pins and unpins of transactions, pins that time out
\* and unpins of blocks the transaction has not pinned included.
C33_AvailableCount ==
    available = Cardinality({i \in DOMAIN pool : pool[i].pins = 0})

\* A pin has just timed out on a pool with no buffer available, whose
\* buffer keeps a pin that its transaction's unpin left behind.
C33_Witness ==
    /\ thr.last.op = "pin"
    /\ ~thr.last.ok
    /\ available = 0
    /\ \A t \in TxNums, b \in Blocks : txs[t].buffers[b] = NoIdx

\* An unpin of a block its transaction has not pinned has just returned.
C33_WitnessUnpin ==
    /\ thr.last.op = "unpin"
    /\ ~thr.last.ok
    /\ available = 0


\* =====================================================================
\* A pool of several buffers shared by the transactions
\* =====================================================================
PoolBufs == 2

InitShare ==
    /\ StartFrom(AfterNews(FreshStore(MaxTx, PoolBufs), MaxTx))
    /\ thr = [last |-> NoCall]
    /\ now = 0
    /\ mutex = NoThread

\* Transaction::pin
SharePin(t, blk) ==
    /\ PinsOf(blk) < MaxPoolPins
    /\ Install(Transaction_pin(Cur, t, blk))
    /\ thr' = [last |-> [op |-> "pin", t |-> t, blk |-> blk, offset |-> 0,
                         res |-> NoVal]]
    /\ UNCHANGED << now, mutex, needRecover, crashes, hist >>

\* Transaction::unpin
ShareUnpin(t, blk) ==
    /\ Install(Transaction_unpin(Cur, t, blk))
    /\ thr' = [last |-> NoCall]
    /\ UNCHANGED << now, mutex, needRecover, crashes, hist >>

NextShare ==
    \/ \E t \in TxNums, blk \in Blocks : SharePin(t, blk)
    \/ \E t \in TxNums, blk \in Blocks : ShareUnpin(t, blk)

SpecShare == InitShare /\ [][NextShare]_vars

\* C34: no two buffers of the pool hold the same block, and the
\* transactions that have a block pinned all use one buffer, which holds
\* that block.
C34_BlockInOneBuffer ==
    /\ \A i \in DOMAIN pool, j \in DOMAIN pool :
          (i # j /\ pool[i].block # NoBlock) => pool[i].block # pool[j].block
    /\ \A t \in TxNums, u \in TxNums, b \in Blocks :
          (txs[t].buffers[b] # NoIdx /\ txs[u].buffers[b] # NoIdx) =>
              /\ txs[t].buffers[b] = txs[u].buffers[b]
              /\ pool[txs[t].buffers[b]].block = b

\* Two transactions have the same block pinned, in the second buffer of the
\* pool, after the second of them pinned it while the first buffer was free
\* and held another block.
C34_Witness ==
    /\ thr.last.op = "pin"
    /\ \E t \in TxNums, u \in TxNums :
          /\ t # u
          /\ txs[t].buffers[thr.last.blk] = 1
          /\ txs[u].buffers[thr.last.blk] = 1
    /\ pool[1].pins = 2
    /\ pool[0].pins = 0
    /\ pool[0].block \notin {NoBlock, thr.last.blk}


\* The value a location holds: the one in the buffer holding its block, and
\* the one on disk (zero past the end of the file) if no buffer holds it.
LocValue(p, d, b, o) ==
    LET S == {i \in DOMAIN p : p[i].block = b} IN
    IF S = {} THEN d[b][o] ELSE p[MinOf(S)].contents[o]

\* C35: a rollback of T leaves every location T has not written, the ones
\* written by other transactions included, with the value it held before.
C35_RollbackFrame ==
    [][\A t \in TxNums : RollbackDone(t) =>
          \A b \in Blocks, o \in Cells :
              hist.wrote[t][b][o] = NoVal =>
                  LocValue(pool', disk', b, o) = LocValue(pool, disk, b, o)]_vars


\* =====================================================================
\* Two-phase locking: the locks of a transaction from its first access to
\* its commit or rollback
\* =====================================================================
\* thr.acq[t]: the blocks (END_OF_FILE for the sentinel) t has asked a lock
\* for since it started; thr.acqx[t]: those it has written (history);
\* thr.last: the unpin call that has just returned, NotUnpin after any
\* other call.
NotUnpin == [op |-> "none", t |-> NoTx, blk |-> NoBlock]

InitTwoPhase ==
    /\ StartFrom(AfterNews(FreshStore(MaxTx, NBufs), MaxTx))
    /\ thr = [acq |-> [t \in TxNums |-> {}], acqx |-> [t \in TxNums |-> {}],
              last |-> NotUnpin]
    /\ now = 0
    /\ mutex = NoThread

Called(op, t, blk) == [op |-> op, t |-> t, blk |-> blk]

TpPin(t, blk) ==
    /\ Active(t)
    /\ txs[t].pins[blk] < MaxPins
    /\ PinsOf(blk) < MaxPoolPins
    /\ Install(Transaction_pin(Cur, t, blk))
    /\ thr' = [thr EXCEPT !.last = NotUnpin]
    /\ UNCHANGED << now, mutex, needRecover, crashes, hist >>

TpUnpin(t, blk) ==
    /\ Active(t)
    /\ Install(Transaction_unpin(Cur, t, blk))
    /\ thr' = [thr EXCEPT !.last = Called("unpin", t, blk)]
    /\ UNCHANGED << now, mutex, needRecover, crashes, hist >>

TpGetInt(t, blk) ==
    /\ Active(t)
    /\ Install(Transaction_get_int(Cur, t, blk))
    /\ thr' = [thr EXCEPT !.acq[t] = @ \cup {blk}, !.last = NotUnpin]
    /\ UNCHANGED << now, mutex, needRecover, crashes, hist >>

\* Transaction::set_int, not logged
TpSetInt(t, blk, offset, val) ==
    /\ Active(t)
    /\ Install(Transaction_set_int(Cur, t, blk, offset, val, FALSE))
    /\ thr' = [thr EXCEPT !.acq[t] = @ \cup {blk}, !.acqx[t] = @ \cup {blk},
                          !.last = NotUnpin]
    /\ UNCHANGED << now, mutex, needRecover, crashes, hist >>

TpSize(t) ==
    /\ Active(t)
    /\ Install(Transaction_size(Cur, t))
    /\ thr' = [thr EXCEPT !.acq[t] = @ \cup {END_OF_FILE},
                          !.last = NotUnpin]
    /\ UNCHANGED << now, mutex, needRecover, crashes, hist >>

\* Transaction::append, while the data file has room in the model
TpAppend(t) ==
    /\ Active(t)
    /\ fileLen < NBlocks
    /\ Install(Transaction_append(Cur, t))
    /\ thr' = [thr EXCEPT !.acq[t] = @ \cup {END_OF_FILE},
                          !.last = NotUnpin]
    /\ UNCHANGED << now, mutex, needRecover, crashes, hist >>

TpCommit(t) ==
    /\ Active(t)
    /\ Install(Transaction_commit(Cur, t))
    /\ thr' = [thr EXCEPT !.acq[t] = {}, !.acqx[t] = {}, !.last = NotUnpin]
    /\ UNCHANGED << now, mutex, needRecover, crashes, hist >>

TpRollback(t) ==
    /\ Active(t)
    /\ Install(Transaction_rollback(Cur, t))
    /\ thr' = [thr EXCEPT !.acq[t] = {}, !.acqx[t] = {}, !.last = NotUnpin]
    /\ UNCHANGED << now, mutex, needRecover, crashes, hist >>

NextTwoPhase ==
    \/ \E t \in TxNums, blk \in Blocks : TpPin(t, blk)
    \/ \E t \in TxNums, blk \in Blocks : TpUnpin(t, blk)
    \/ \E t \in TxNums, blk \in Blocks : TpGetInt(t, blk)
    \/ \E t \in TxNums, blk \in Blocks, offset \in Cells : TpSetInt(t, blk, offset, MaxVal)
    \/ \E t \in TxNums : TpSize(t)
    \/ \E t \in TxNums : TpAppend(t)
    \/ \E t \in TxNums : TpCommit(t)
    \/ \E t \in TxNums : TpRollback(t)

SpecTwoPhase == InitTwoPhase /\ [][NextTwoPhase]_vars

\* C36: a transaction that has not committed or rolled back yet holds every
\* lock it has acquired: its lock map has the block, exclusive if it wrote
\* it, and the lock table counts it among the holders of the block,
\* whatever pins, unpins, reads, writes, sizes and appends came in between.
C36_LocksHeldToEnd ==
    \A t \in TxNums :
        Active(t) =>
            \A k \in thr.acq[t] :
                /\ txs[t].locks[k] # "none"
                /\ k \in thr.acqx[t] => txs[t].locks[k] = "XLock"
                /\ k \in DOMAIN locks
                /\ locks[k] >= Cardinality({u \in TxNums : Active(u) /\ k \in thr.acq[u]})

\* An active transaction has just unpinned a block it wrote and that another
\* active transaction has locked too, and it holds the sentinel lock as well.
C36_Witness ==
    /\ thr.last.op = "unpin"
    /\ Active(thr.last.t)
    /\ thr.last.blk \in thr.acqx[thr.last.t]
    /\ \E i \in DOMAIN pool : pool[i].block = thr.last.blk /\ pool[i].txnum = Some(thr.last.t)
    /\ END_OF_FILE \in thr.acq[thr.last.t]
    /\ \E u \in TxNums : u # thr.last.t /\ Active(u) /\ thr.last.blk \in thr.acq[u]
    /\ locks[thr.last.blk] = 2


\* =====================================================================
\* Restart recovery run twice: transactions work, the process dies and is
\* started again, a fresh transaction recovers, a second one recovers
\* =====================================================================
\* thr.runs: recover() calls returned since the restart; thr.changed: the
\* first of them changed the data file (history).
InitTwice ==
    /\ StartFrom(FreshStore(MaxTx, NBufs))
    /\ thr = [runs |-> 0, changed |-> FALSE]
    /\ now = 0
    /\ mutex = NoThread

\* Transaction::new after the restart: the second one only once the first
\* has recovered.
TwiceNew ==
    /\ crashes > 0
    /\ NEXT_TXNUM < MaxTx
    /\ needRecover => NEXT_TXNUM = 0
    /\ \A t \in TxNums : txs[t].status # "active"
    /\ Install(Transaction_new(Cur))
    /\ UNCHANGED thrvars
    /\ UNCHANGED << needRecover, crashes, hist >>

\* The first recover() after the restart
TwiceRecover(t) ==
    /\ needRecover /\ Active(t)
    /\ Install(Transaction_recover(Cur, t))
    /\ thr' = [runs |-> 1, changed |-> disk' # disk]
    /\ needRecover' = FALSE
    /\ UNCHANGED << now, mutex, crashes, hist >>

\* The second one, by the next fresh transaction
TwiceRecoverAgain(t) ==
    /\ ~needRecover /\ crashes > 0 /\ Active(t)
    /\ thr.runs = 1
    /\ Install(Transaction_recover(Cur, t))
    /\ thr' = [thr EXCEPT !.runs = 2]
    /\ UNCHANGED << now, mutex, needRecover, crashes, hist >>

NextTwice ==
    \/ crashes = 0 /\ New
    \/ \E t \in TxNums, blk \in Blocks : crashes = 0 /\ Pin(t, blk)
    \/ \E t \in TxNums, blk \in Blocks : crashes = 0 /\ Unpin(t, blk)
    \/ \E t \in TxNums, blk \in Blocks, offset \in Cells, val \in Values :
          crashes = 0 /\ SetInt(t, blk, offset, val, TRUE)
    \/ \E t \in TxNums : crashes = 0 /\ Commit(t)
    \/ \E t \in TxNums : crashes = 0 /\ Rollback(t)
    \/ Crash
    \/ TwiceNew
    \/ \E t \in TxNums : TwiceRecover(t)
    \/ \E t \in TxNums : TwiceRecoverAgain(t)

SpecTwice == InitTwice /\ [][NextTwice]_vars

\* C37: the second of two recover() calls in succession finds its own Start
\* record and the Checkpoint record of the first at the tail of the log,
\* adds one Checkpoint record, and changes no block of the data file and no
\* page of the pool.
C37_RecoverTwice ==
    [][\A t \in TxNums :
          (thr.runs = 1 /\ thr'.runs = 2 /\ Active(t)) =>
              /\ txs'[t].status = "recovered"
              /\ disk' = disk
              /\ fileLen' = fileLen
              /\ \A i \in DOMAIN pool :
                    pool'[i].block = pool[i].block /\ pool'[i].contents = pool[i].contents
              /\ Len(LogMgr_iterator(Cur)) >= 2
              /\ LogMgr_iterator(Cur)[1] = StartRecord(t)
              /\ LogMgr_iterator(Cur)[2] = CheckpointRecord
              /\ LogMgr_iterator(Cur') = << CheckpointRecord >> \o LogMgr_iterator(Cur)]_vars

\* The second recover() has returned after a first one that changed the
\* data file.
C37_Witness ==
    /\ thr.runs = 2
    /\ thr.changed
    /\ \A t \in TxNums : txs[t].status = "recovered"


\* The bytes the newest k records appended take on a page, each with the
\* four bytes in front of it.
RECURSIVE Span(_, _)
Span(app, k) ==
    IF k = 0 THEN 0 ELSE app[Len(app)][1] + 4 + Span(SubSeq(app, 1, Len(app) - 1), k - 1)

\* The newest k records appended lie on the page one after the other from
\* position b to the end of the block, the newest first, each inside the
\* block and behind the four bytes of the boundary.
TailHolds(page, app, b, k) ==
    /\ b + Span(app, k) = LogBlockSize
    /\ \A j \in 1..k :
          LET r == app[Len(app) - j + 1]
              pos == b + Span(app, j - 1)
          IN /\ pos >= 4
             /\ pos + 4 + r[1] <= LogBlockSize
             /\ Page_get_byte(page, pos) = r[1] % U8
             /\ SubSeq(page, pos + 5, pos + 4 + r[1]) = MkRecord(r[1], r[2])

\* C38: after LogMgr::new on an empty log and after every append of a
\* record that fits in an empty block, the boundary in bytes 0..3 of the
\* tail page is between 4 and the block size, and the records of the tail
\* block fill the page from the boundary to the end of the block, none of
\* them over the four bytes of the boundary.
C38_BoundaryInBlock ==
    LET b == Page_get_int(blog.page, 0) IN
    /\ 4 <= b
    /\ b <= LogBlockSize
    /\ \E k \in 0..Len(appended) : TailHolds(blog.page, appended, b, k)

\* The tail block is not the first block of the log and holds two records.
C38_Witness ==
    /\ blog.current_block >= 1
    /\ Len(appended) >= 3
    /\ Page_get_int(blog.page, 0) =
          LogBlockSize - Span(appended, 2)


\* =====================================================================
\* RecordPage: insert_after and delete on one block of a few slots
\* =====================================================================
\* The block size of this section: four slots of 8 bytes and 4 bytes over.
SlotBlockSize == 36

SlotFile == << 116 >>
SlotBlock == BlockId_new(SlotFile, 0)
SlotLayout == Layout_new(Schema_add_int_field(Schema_new, FieldA))
SlotPrevs == {NoVal} \cup (0..(SlotBlockSize \div Layout_slot_size(SlotLayout)))

\* RecordPage::delete
RecordPage_delete(st, rp, slot) == RecordPage_set_flag(st, rp, slot, SlotEmpty)

\* RecordPage::new on a block of zeros, then format
SlotStart ==
    LET r == RecordPage_new([files |-> [f \in {SlotFile} |-> << Page_new(SlotBlockSize) >>],
                             pins |-> << >>, block_size |-> SlotBlockSize],
                            SlotBlock, SlotLayout)
    IN [st |-> RecordPage_format(r.st, r.rp), rp |-> r.rp]

NoInsert == [prev |-> NoVal, res |-> NoVal, before |-> << >>]

\* thr.last: the insert_after call that has just returned, with its
\* argument, its result and the page before the call; NoInsert after a
\* delete.
InitSlots ==
    /\ StartFrom(FreshStore(MaxTx, NBufs))
    /\ thr = [st |-> SlotStart.st, rp |-> SlotStart.rp, pc |-> "idle", last |-> NoInsert]
    /\ now = 0
    /\ mutex = NoThread

SlotPage(st) == st.files[SlotFile][1]

\* rp.insert_after(prev)
SlotInsert(prev) ==
    /\ \E r \in {RecordPage_insert_after(thr.st, thr.rp, prev)} :
          thr' = [thr EXCEPT !.st = r.st, !.pc = "inserted",
                             !.last = [prev |-> prev, res |-> r.slot,
                                       before |-> SlotPage(thr.st)]]
    /\ UNCHANGED << mainvars, logvars, now, mutex >>

\* rp.delete(slot) of a valid slot
SlotDelete(slot) ==
    /\ RecordPage_is_valid_slot(thr.st, thr.rp, slot)
    /\ thr' = [thr EXCEPT !.st = RecordPage_delete(thr.st, thr.rp, slot),
                          !.pc = "deleted", !.last = NoInsert]
    /\ UNCHANGED << mainvars, logvars, now, mutex >>

NextSlots ==
    \/ \E prev \in SlotPrevs : SlotInsert(prev)
    \/ \E slot \in 0..(SlotBlockSize \div Layout_slot_size(SlotLayout)) : SlotDelete(slot)

SpecSlots == InitSlots /\ [][NextSlots]_vars

\* The slots i with (i + 1) * slot_size <= block_size, and the flag of one.
SlotsValid == {i \in 0..SlotBlockSize : (i + 1) * Layout_slot_size(SlotLayout) <= SlotBlockSize}
FlagAt(page, i) == Page_get_int(page, i * Layout_slot_size(SlotLayout))

\* C39: insert_after(prev) returns the smallest valid slot greater than prev
\* (from 0 when prev is None) whose flag is Empty, sets the flag of that slot
\* to Used and changes nothing else; it returns None and changes nothing
\* when there is no such slot.
C39_InsertAfter ==
    thr.pc = "inserted" =>
        LET before == thr.last.before
            page == SlotPage(thr.st)
            cand == {i \in SlotsValid : /\ thr.last.prev # NoVal => i > thr.last.prev
                                        /\ FlagAt(before, i) = SlotEmpty}
        IN IF cand = {}
           THEN thr.last.res = NoVal /\ page = before
           ELSE /\ thr.last.res = MinOf(cand)
                /\ FlagAt(page, thr.last.res) = SlotUsed
                /\ \A i \in SlotsValid \ {thr.last.res} : FlagAt(page, i) = FlagAt(before, i)
                /\ page = Page_set_int(before, thr.last.res * Layout_slot_size(SlotLayout), SlotUsed)

\* insert_after(Some(0)) has passed the used slots 1 and 2 and taken the
\* last valid slot of the block.
C39_Witness ==
    /\ thr.pc = "inserted"
    /\ thr.last.prev = 0
    /\ FlagAt(thr.last.before, 1) = SlotUsed
    /\ thr.last.res = 3
    /\ FlagAt(SlotPage(thr.st), 3) = SlotUsed

\* insert_after has returned None on a block with no empty slot after prev.
C39_WitnessNone ==
    /\ thr.pc = "inserted"
    /\ thr.last.prev = 1
    /\ thr.last.res = NoVal
    /\ FlagAt(thr.last.before, 0) = SlotEmpty


\* =====================================================================
\* TableScan: before_first and next over a table file of a few blocks
\* =====================================================================
\* Blocks of 20 bytes hold two slots of 8 bytes; the file has up to 3 blocks.
ScanBlockSize == 20
ScanBlocks == 3

ScanTable == << 116 >>
ScanSlots == 0..((ScanBlockSize \div Layout_slot_size(SlotLayout)) - 1)

\* A formatted block whose used slots are those of the set given.
RECURSIVE ScanPage(_, _)
ScanPage(page, slots) ==
    IF slots = {} THEN page
    ELSE LET i == MinOf(slots) IN
         ScanPage(Page_set_int(page, i * Layout_slot_size(SlotLayout), SlotUsed), slots \ {i})

\* The table file of n blocks with the used slots given as pairs
\* << block, slot >>, no block pinned.
ScanStore(n, used) ==
    [files |-> [f \in {TableFile(ScanTable)} |->
                  [b \in 1..n |-> ScanPage(Page_new(ScanBlockSize),
                                           {i \in ScanSlots : << b - 1, i >> \in used})]],
     pins |-> << >>, block_size |-> ScanBlockSize]

\* The pairs of a set in increasing (block, slot) order
RECURSIVE InOrder(_)
InOrder(S) ==
    IF S = {} THEN << >>
    ELSE LET m == CHOOSE x \in S : \A y \in S :
                     x[1] < y[1] \/ (x[1] = y[1] /\ x[2] <= y[2])
         IN << m >> \o InOrder(S \ {m})

\* TableScan::new on a table of thr.n blocks with the used slots thr.used;
\* thr.visited: the records the next() calls since the last before_first()
\* have stopped at (history).
InitScan ==
    /\ StartFrom(FreshStore(MaxTx, NBufs))
    /\ \E n \in 1..ScanBlocks :
       \E used \in SUBSET ((0..(n - 1)) \X ScanSlots) :
       \E r \in {TableScan_new(ScanStore(n, used), SlotLayout, ScanTable)} :
          thr = [n |-> n, used |-> used, st |-> r.st, ts |-> r.ts, pc |-> "new",
                 visited |-> << >>]
    /\ now = 0
    /\ mutex = NoThread

\* ts.before_first()
ScanBeforeFirst ==
    /\ thr.pc # "scanning" \/ thr.visited # << >>
    /\ \E r \in {TableScan_before_first(thr.st, thr.ts)} :
          thr' = [thr EXCEPT !.st = r.st, !.ts = r.ts, !.pc = "scanning",
                             !.visited = << >>]
    /\ UNCHANGED << mainvars, logvars, now, mutex >>

\* ts.next(), until it has returned false
ScanNext ==
    /\ thr.pc = "scanning"
    /\ \E r \in {TableScan_next(thr.st, thr.ts)} :
          thr' = [thr EXCEPT
                    !.st = r.st, !.ts = r.ts,
                    !.pc = IF r.found THEN "scanning" ELSE "done",
                    !.visited = IF r.found
                                THEN Append(@, << r.ts.rp.block_id.number,
                                                  r.ts.current_slot >>)
                                ELSE @]
    /\ UNCHANGED << mainvars, logvars, now, mutex >>

NextScan ==
    \/ ScanBeforeFirst
    \/ ScanNext

SpecScan == InitScan /\ [][NextScan]_vars

\* C40: after before_first() the next() calls stop at the used slots of the
\* blocks of the table file in increasing (block, slot) order, each once,
\* and next() returns false only once every used slot has been visited.
C40_ScanVisitsAll ==
    LET all == InOrder(thr.used) IN
    /\ Len(thr.visited) <= Len(all)
    /\ thr.visited = SubSeq(all, 1, Len(thr.visited))
    /\ thr.pc = "done" => thr.visited = all

\* A scan of three blocks has ended after visiting records of the first and
\* of the last block, the block in between holding none.
C40_Witness ==
    /\ thr.pc = "done"
    /\ thr.n = 3
    /\ Len(thr.visited) >= 3
    /\ thr.visited[1][1] = 0
    /\ thr.visited[Len(thr.visited)][1] = 2
    /\ \A k \in 1..Len(thr.visited) : thr.visited[k][1] # 1
====
